---------------------------- MODULE Spec2Model ----------------------------
(***************************************************************************)
(* Model of the retrieval fusion and grounded-synthesis pipeline of        *)
(* local-rag-notebook:                                                     *)
(*   retrieve/fuse.py    rrf_merge, expand_neighbors                       *)
(*   retrieve/rerank.py  Reranker                                          *)
(*   app.py              query_text                                        *)
(*   synthesizer.py      pack_context                                      *)
(*                                                                         *)
(* Chunk identifiers are modelled as small naturals.  An Optional value is *)
(* a sequence of length 0 or 1.  Sequences are 1-based here and 0-based in *)
(* the source; ranks and positions are translated where they are used.     *)
(***************************************************************************)
EXTENDS Integers, Sequences, FiniteSets, TLC

VARIABLES
    pc,            \* which call is in progress / has returned
    \* ---- rrf_merge (retrieve/fuse.py)
    bm25_hits,     \* chunk ids of the lexical hit list, best first
    dense_hits,    \* chunk ids of the dense hit list, best first
    rrf_k,         \* smoothing constant k
    merged,        \* result: sequence of Hit [chunk_id, score]
    \* ---- expand_neighbors (retrieve/fuse.py)
    ids,           \* input ids (may repeat, may be absent from the order)
    order_list,    \* global chunk order
    radius,        \* neighbor radius
    expanded,      \* result of expand_neighbors(ids, order_list, radius)
    reexpanded,    \* result of expand_neighbors(expanded, order_list, 0)
    \* ---- Reranker (retrieve/rerank.py)
    self_enabled,    \* Reranker.enabled: sentence_transformers could be imported
    self_model,      \* Reranker._model is loaded (not None)
    rr_chunks,     \* rerank argument chunks (chunk ids)
    rr_top_k,      \* rerank argument top_k
    rr_env,        \* what the cross-encoder does in this call
    rr_pred,       \* the scores _model.predict returns, in the order of its pairs
    rr_ret,        \* what rerank returned: [chunks, scores, raised]
    \* ---- query_text (app.py)
    cfg,           \* the configuration object the caller passes to query_text
    q_in,          \* the arguments of the query_text call
    q_env,         \* what the collaborators do: recall hits, cross-encoder
    q_ret,         \* how the query_text call ended: the exception that left it and
                   \* its locals at that point (selection, id lists, effective controls)
    cfg_loaded,    \* the configuration as load_config returned it, before any query
    q_earlier,     \* an earlier query_text call of this run carried an override
    \* ---- pack_context (synthesizer.py)
    pk_chunks,     \* argument chunks: a list of dicts
    pk_params,     \* max_chars, per_source_quota, near_dup_jaccard, compare_last_n
    pk_ret,        \* the loop state at return: out and the bookkeeping beside it
    \* ---- validate_citations (synthesizer.py)
    vc_parsed,     \* argument parsed: the model's response
    vc_strict,     \* argument strict
    vc_ret,        \* what validate_citations returned: [ok, reason]
    \* ---- decide_abstain (synthesizer.py)
    da_parsed,     \* argument parsed
    da_avg_sim,    \* argument avg_sim (None or a fraction)
    da_threshold,  \* argument threshold
    da_ret,        \* what decide_abstain returned: [abstain, why]
    \* ---- synthesize_answer (synthesizer.py)
    sy_args,       \* retrieved, avg_sim, max_context_chars, cite_n, abstain_threshold, strict_citations
    sy_llm,        \* what _call_local_llm does when called: raises, or the parsed response
    sy_ret,        \* what synthesize_answer handed back
    \* ---- _extract_first_json_object (synthesizer.py)
    ex_text,       \* argument text: the model's raw output (None: not a string)
    ex_ret,        \* what the call did: [raised, error, value]
    \* ---- the index directory shared by ingest_path and query_text (app.py)
    files,         \* per artifact file: the ingest that wrote it and whether the write was finished
    ingest,        \* the ingesting process: the ingest it runs and the next write step
    readers,       \* per querying process: its position and the artifacts it loaded
    overlapped,    \* per querying process: an ingest was running at some time during the query
    faiss          \* the faiss library is importable

fuseVars   == <<bm25_hits, dense_hits, rrf_k, merged>>
expandVars == <<ids, order_list, radius, expanded, reexpanded>>
rerankVars == <<self_enabled, self_model, rr_chunks, rr_top_k, rr_env, rr_pred, rr_ret>>
queryVars  == <<cfg, q_in, q_env, q_ret, cfg_loaded, q_earlier>>
packVars   == <<pk_chunks, pk_params, pk_ret>>
validateVars == <<vc_parsed, vc_strict, vc_ret>>
abstainVars == <<da_parsed, da_avg_sim, da_threshold, da_ret>>
synthVars  == <<sy_args, sy_llm, sy_ret>>
answerVars == <<validateVars, abstainVars, synthVars>>
extractVars == <<ex_text, ex_ret>>
indexVars  == <<files, ingest, readers, overlapped, faiss>>
vars       == <<pc, fuseVars, expandVars, rerankVars, queryVars, packVars, answerVars,
                extractVars, indexVars>>

\* Optional[T]: None is the empty sequence, a value v is <<v>>
None == <<>>
Some(v) == <<v>>
Val(o) == o[1]

-----------------------------------------------------------------------------
(* Bounds of the model *)

NumIds    == 3      \* chunk identifiers 1..NumIds (rrf_merge, expand_neighbors)
MaxHits   == 3      \* longest hit list handed to rrf_merge
MaxIdsLen == 3      \* longest id list handed to expand_neighbors
MaxRadius == 2      \* largest neighbor radius
MaxScore  == 1      \* cross-encoder scores are 0..MaxScore
MaxPack   == 3      \* longest chunk list handed to pack_context

(* Program constants *)
RrfKDefault == 60   \* rrf_merge(..., k: int = 60)

Ids  == 1..NumIds
RrfKs == {2, RrfKDefault}
ScoreVals == 0..MaxScore
TopKs == (-1)..NumIds

-----------------------------------------------------------------------------
(* Generic helpers *)

Range(s) == {s[i] : i \in DOMAIN s}

SeqsUpTo(S, n) == UNION {[1..m -> S] : m \in 0..n}

NoDup(s) == \A i, j \in DOMAIN s : i # j => s[i] # s[j]

DistinctSeqsUpTo(S, n) == {s \in SeqsUpTo(S, n) : NoDup(s)}

Min2(a, b) == IF a <= b THEN a ELSE b
Max2(a, b) == IF a >= b THEN a ELSE b

\* Python: s[:k] for any integer k (negative k counts from the end)
SliceTo(s, k) ==
    LET n == Len(s)
        e == IF k >= 0 THEN Min2(k, n) ELSE Max2(n + k, 0)
    IN  SubSeq(s, 1, e)

\* Python: s[k:] for any integer k
SliceFrom(s, k) ==
    LET n == Len(s)
        b == IF k >= 0 THEN Min2(k, n) ELSE Max2(n + k, 0)
    IN  SubSeq(s, b + 1, n)

\* first index of x in s (0 when absent)
IndexOf(s, x) ==
    IF x \in Range(s) THEN CHOOSE i \in DOMAIN s : s[i] = x /\ \A j \in 1..(i-1) : s[j] # x
    ELSE 0

-----------------------------------------------------------------------------
(* Exact rationals for the RRF scores: [num, den] with den > 0 *)

RZero == [num |-> 0, den |-> 1]
Recip(n) == [num |-> 1, den |-> n]
RAdd(a, b) == [num |-> a.num * b.den + b.num * a.den, den |-> a.den * b.den]
REq(a, b) == a.num * b.den = b.num * a.den
RLt(a, b) == a.num * b.den < b.num * a.den
RGe(a, b) == ~RLt(a, b)

-----------------------------------------------------------------------------
(* rrf_merge: retrieve/fuse.py *)

\* scores.get(cid, 0.0) on the insertion-ordered dict, kept as a sequence of Hit
DictGet(scores, cid) ==
    IF \E i \in DOMAIN scores : scores[i].chunk_id = cid
    THEN scores[CHOOSE i \in DOMAIN scores : scores[i].chunk_id = cid].score
    ELSE RZero

\* scores[cid] = v : an existing key keeps its place, a new key is appended
DictSet(scores, cid, v) ==
    IF \E i \in DOMAIN scores : scores[i].chunk_id = cid
    THEN [i \in DOMAIN scores |->
            IF scores[i].chunk_id = cid THEN [chunk_id |-> cid, score |-> v] ELSE scores[i]]
    ELSE Append(scores, [chunk_id |-> cid, score |-> v])

\* the rank counted by enumerate(hits, start=0): ranks one too low
RrfTermFromZero(k, rank) == Recip(k + rank - 1)

\* 1.0 / (k + rank), rank counted from 1
RrfTerm(k, rank) == Recip(k + rank)

\* for rank, h in enumerate(hits, start=1): scores[h] = scores.get(h, 0.0) + 1/(k+rank)
RECURSIVE RrfAccumulate(_, _, _, _)
RrfAccumulate(scores, hits, k, rank) ==
    IF rank > Len(hits) THEN scores
    ELSE RrfAccumulate(
            DictSet(scores, hits[rank], RAdd(DictGet(scores, hits[rank]), RrfTerm(k, rank))),
            hits, k, rank + 1)

\* an unstable variant: h goes in front of the elements with an equal score
InsertDescUnstable(s, h) ==
    LET before == {i \in DOMAIN s : RLt(h.score, s[i].score)}
        p == IF \E i \in DOMAIN s : i \notin before
             THEN (CHOOSE i \in DOMAIN s : i \notin before /\ \A j \in 1..(i-1) : j \in before) - 1
             ELSE Len(s)
    IN  SubSeq(s, 1, p) \o <<h>> \o SubSeq(s, p + 1, Len(s))

\* insert h behind every element whose score is >= h.score
InsertDesc(s, h) ==
    LET before == {i \in DOMAIN s : RGe(s[i].score, h.score)}
        p == IF \E i \in DOMAIN s : i \notin before
             THEN (CHOOSE i \in DOMAIN s : i \notin before /\ \A j \in 1..(i-1) : j \in before) - 1
             ELSE Len(s)
    IN  SubSeq(s, 1, p) \o <<h>> \o SubSeq(s, p + 1, Len(s))

\* merged.sort(key=score, reverse=True): stable, descending
RECURSIVE SortDescFrom(_, _, _)
SortDescFrom(done, s, i) ==
    IF i > Len(s) THEN done ELSE SortDescFrom(InsertDesc(done, s[i]), s, i + 1)

SortByScoreDesc(s) == SortDescFrom(<<>>, s, 1)

rrf_merge(bm25, dense, k) ==
    SortByScoreDesc(RrfAccumulate(RrfAccumulate(<<>>, bm25, k, 1), dense, k, 1))

-----------------------------------------------------------------------------
(* expand_neighbors: retrieve/fuse.py *)

\* index_map = {cid: idx for idx, cid in enumerate(order_list)}: the last
\* position wins for a repeated id; None when absent.  Positions are 1-based.
IndexMapGet(order, cid) ==
    IF cid \in Range(order)
    THEN Some(CHOOSE i \in DOMAIN order :
                 order[i] = cid /\ \A j \in (i+1)..Len(order) : order[j] # cid)
    ELSE None

\* an off-by-one window: range(base - radius, base + radius) misses the right edge
WindowHiShort(base, r) == base + r - 1

\* last j of range(base - radius, base + radius + 1)
WindowHi(base, r) == base + r

\* for j in range(base - radius, base + radius + 1): emit order[j] when in bounds and unseen
RECURSIVE ExpandWindow(_, _, _, _)
ExpandWindow(out, order, j, hi) ==
    IF j > hi THEN out
    ELSE IF 1 <= j /\ j <= Len(order) /\ order[j] \notin Range(out)
         THEN ExpandWindow(Append(out, order[j]), order, j + 1, hi)
         ELSE ExpandWindow(out, order, j + 1, hi)

RECURSIVE ExpandFrom(_, _, _, _, _)
ExpandFrom(out, idl, order, r, i) ==
    IF i > Len(idl) THEN out
    ELSE LET base == IndexMapGet(order, idl[i])
         IN  IF base = None THEN ExpandFrom(out, idl, order, r, i + 1)
             ELSE ExpandFrom(ExpandWindow(out, order, Val(base) - r, WindowHi(Val(base), r)),
                             idl, order, r, i + 1)

expand_neighbors(idl, order, r) == ExpandFrom(<<>>, idl, order, r, 1)


-----------------------------------------------------------------------------
(* Reranker: retrieve/rerank.py *)

\* the cross-encoder in one call: it scores, predict raises, or the model
\* cannot be constructed by _ensure_model
RerankEnvs == {"ok", "predict_raises", "load_raises"}

\* list(zip(chunks[:top_k], scores)): zip stops at the shorter argument
Zip(cs, scores) ==
    [i \in 1..Min2(Len(cs), Len(scores)) |-> [chunk |-> cs[i], score |-> scores[i]]]

\* an unstable variant: p goes in front of the pairs with an equal score
InsertScoredUnstable(s, p) ==
    LET before == {i \in DOMAIN s : s[i].score > p.score}
        k == IF \E i \in DOMAIN s : i \notin before
             THEN (CHOOSE i \in DOMAIN s : i \notin before /\ \A j \in 1..(i-1) : j \in before) - 1
             ELSE Len(s)
    IN  SubSeq(s, 1, k) \o <<p>> \o SubSeq(s, k + 1, Len(s))

\* insert p behind every pair whose score is >= p.score
InsertScored(s, p) ==
    LET before == {i \in DOMAIN s : s[i].score >= p.score}
        k == IF \E i \in DOMAIN s : i \notin before
             THEN (CHOOSE i \in DOMAIN s : i \notin before /\ \A j \in 1..(i-1) : j \in before) - 1
             ELSE Len(s)
    IN  SubSeq(s, 1, k) \o <<p>> \o SubSeq(s, k + 1, Len(s))

\* scored.sort(key=lambda x: float(x[1]), reverse=True): stable, descending
RECURSIVE SortScoredFrom(_, _, _)
SortScoredFrom(done, s, i) ==
    IF i > Len(s) THEN done ELSE SortScoredFrom(InsertScored(done, s[i]), s, i + 1)

SortScored(s) == SortScoredFrom(<<>>, s, 1)

\* a variant of the early return that hands back only the scored prefix
RerankNoOpTruncated(chunks, top_k) ==
    [chunks |-> SliceTo(chunks, top_k), scores |-> None, raised |-> FALSE]

\* return chunks, None
RerankNoOp(chunks, top_k) ==
    [chunks |-> chunks, scores |-> None, raised |-> FALSE]

\* an exception that leaves rerank
RerankRaises(chunks) ==
    [chunks |-> chunks, scores |-> None, raised |-> TRUE]

\* the scored path: sort the scored prefix, append the tail, and return the
\* predicted scores as predict gave them (in the order of the input prefix)
RerankScored(chunks, top_k, pred) ==
    LET scored == SortScored(Zip(SliceTo(chunks, top_k), pred))
    IN  [chunks |-> [i \in DOMAIN scored |-> scored[i].chunk] \o SliceFrom(chunks, top_k),
         scores |-> Some(pred),
         raised |-> FALSE]

\* Reranker.rerank(query, chunks, top_k) on a reranker whose `enabled` flag is
\* `enabled`, whose model is loaded or not, in environment env
rerank(enabled, loaded, chunks, top_k, env, pred) ==
    IF ~enabled \/ chunks = <<>> THEN RerankNoOp(chunks, top_k)
    ELSE IF ~loaded /\ env = "load_raises" THEN RerankRaises(chunks)
    ELSE IF env = "predict_raises" THEN RerankNoOp(chunks, top_k)
    ELSE RerankScored(chunks, top_k, pred)

\* Reranker._model after the call
ModelAfter(enabled, loaded, chunks, env) ==
    IF ~enabled \/ chunks = <<>> THEN loaded
    ELSE IF ~loaded /\ env = "load_raises" THEN FALSE
    ELSE TRUE


-----------------------------------------------------------------------------
(* query_text: app.py *)

(* Strings that are inspected character by character are sequences of      *)
(* one-character strings.                                                  *)

\* str.lower() on one character
LowerChar(ch) ==
    CASE ch = "A" -> "a" [] ch = "B" -> "b" [] ch = "P" -> "p" [] ch = "T" -> "t"
      [] OTHER -> ch

\* str.lower()
Lower(str) == [i \in DOMAIN str |-> LowerChar(str[i])]

\* str.strip()
RECURSIVE Strip(_)
Strip(str) ==
    IF str = <<>> THEN str
    ELSE IF Head(str) = " " THEN Strip(Tail(str))
    ELSE IF str[Len(str)] = " " THEN Strip(SubSeq(str, 1, Len(str) - 1))
    ELSE str

\* f in p
IsSubstring(f, p) ==
    \E i \in 0..(Len(p) - Len(f)) : SubSeq(p, i + 1, i + Len(f)) = f

\* _file_match(path, filters)
file_match(path, filters) ==
    \E n \in DOMAIN filters :
        LET f == Lower(Strip(filters[n]))
        IN  f # <<>> /\ IsSubstring(f, Lower(path))

\* The corpus of the index directory: lex.chunk_id_order, and per chunk
\* meta["file_path"] and page_no
ChunkIdOrder == [i \in 1..NumIds |-> i]
FilePath(c) == IF c % 2 = 1 THEN <<"n", "/", "A", "b">> ELSE <<"b", "a">>
PageNo(c) == IF c = 1 THEN None ELSE Some(c - 1)

\* resolution of the per-call overrides (app.py 112-142)
TopKLex(c, in) ==
    IF in.recall_topk # None THEN Val(in.recall_topk) ELSE c.retrieval.top_k_lexical
TopKDen(c, in) ==
    IF in.recall_topk # None THEN Val(in.recall_topk) ELSE c.retrieval.top_k_dense
NeighRadius(c, in) ==
    IF in.neighbor_window # None THEN Val(in.neighbor_window) ELSE c.retrieval.neighborhood
\* a resolution that does not look at the no_rerank flag
RrEnabledIgnoringFlag(c, in) == c.retrieval.reranker.enabled

\* rr_enabled = bool(rer_cfg.get("enabled", False)) and not no_rerank
RrEnabled(c, in) == c.retrieval.reranker.enabled /\ ~in.no_rerank
\* rer_cfg.get("final_k", 8)
RrFinalKDefault == 8
RrFinalKAfterRerankTopk(c, in) ==
    IF in.rerank_topk # None THEN Val(in.rerank_topk)
    ELSE IF c.retrieval.reranker.final_k # None THEN Val(c.retrieval.reranker.final_k)
    ELSE RrFinalKDefault
RrTopkToRerank(c, in) ==
    IF in.rerank_topk # None
       /\ c.retrieval.reranker.top_k_to_rerank < RrFinalKAfterRerankTopk(c, in)
    THEN RrFinalKAfterRerankTopk(c, in)
    ELSE c.retrieval.reranker.top_k_to_rerank
RrMinScore(c, in) ==
    IF in.min_rerank_score # None THEN Val(in.min_rerank_score)
    ELSE c.retrieval.reranker.min_score
RrFinalK(c, in) ==
    IF in.final_k # None THEN Val(in.final_k) ELSE RrFinalKAfterRerankTopk(c, in)

\* lex.search / dense.search return the best top_k chunks of the corpus
RecallLen(top_k) == Len(SliceTo(ChunkIdOrder, top_k))

\* fused_ids = [h.chunk_id for h in rrf_merge(bm25_hits, dense_hits, k=rrf_k)]
FusedIds(c, bm25, dense) ==
    LET fused == rrf_merge(bm25, dense, c.retrieval.rrf_k)
    IN  [i \in DOMAIN fused |-> fused[i].chunk_id]

\* a filter stage that leaves out the page filter
ApplyFiltersFileOnly(chunks, in) ==
    LET FileOk(ch) == file_match(FilePath(ch), Val(in.file_filters))
    IN  IF in.file_filters # None /\ Val(in.file_filters) # <<>>
        THEN SelectSeq(chunks, FileOk) ELSE chunks

\* the optional file and page filters (app.py 164-173)
ApplyFilters(chunks, in) ==
    LET FileOk(ch) == file_match(FilePath(ch), Val(in.file_filters))
        PageOk(ch) == /\ PageNo(ch) # None
                      /\ Val(in.page_range)[1] <= Val(PageNo(ch))
                      /\ Val(PageNo(ch)) <= Val(in.page_range)[2]
        byFile == IF in.file_filters # None /\ Val(in.file_filters) # <<>>
                  THEN SelectSeq(chunks, FileOk) ELSE chunks
    IN  IF in.page_range # None THEN SelectSeq(byFile, PageOk) ELSE byFile

\* the score payload handed to the cutoff: nothing, the list rerank returned,
\* or (a reranker implementation returning a mapping) a dict keyed by chunk id
ScoresObj(ret, shape, scored, pred) ==
    IF ret.scores = None THEN [kind |-> "none", list |-> <<>>, dict |-> <<>>]
    ELSE IF shape = "list" THEN [kind |-> "list", list |-> Val(ret.scores), dict |-> <<>>]
    ELSE [kind |-> "dict", list |-> <<>>,
          dict |-> [i \in DOMAIN pred |-> [chunk |-> scored[i], score |-> pred[i]]]]

\* float(scores_obj.get(ch.chunk_id, 0.0))
ScoresGet(d, c) ==
    IF \E i \in DOMAIN d : d[i].chunk = c
    THEN d[CHOOSE i \in DOMAIN d : d[i].chunk = c].score
    ELSE 0

\* the score cutoff (app.py 191-207)
Filtered(rer_chunks, scores_obj, min_score) ==
    LET DictOk(ch) == ScoresGet(scores_obj.dict, ch) >= min_score
        PairOk(pr) == pr.score >= min_score
        kept == SelectSeq(Zip(rer_chunks, scores_obj.list), PairOk)
    IN  IF scores_obj.kind = "dict" /\ scores_obj.dict # <<>>
        THEN SelectSeq(rer_chunks, DictOk)
        ELSE IF scores_obj.kind = "list" /\ scores_obj.list # <<>>
        THEN [i \in DOMAIN kept |-> kept[i].chunk]
        ELSE rer_chunks

\* a selection without the two fallbacks
SelectAfterRerankNoFallback(base_chunks, rer_chunks, filtered, final_k) ==
    IF rer_chunks # <<>> THEN SliceTo(filtered, final_k) ELSE base_chunks

\* chunks after the rerank branch (app.py 177, 190, 209-214)
SelectAfterRerank(base_chunks, rer_chunks, filtered, final_k) ==
    LET chunks == IF rer_chunks # <<>>
                  THEN (IF filtered # <<>> THEN SliceTo(filtered, final_k)
                        ELSE SliceTo(rer_chunks, final_k))
                  ELSE base_chunks
    IN  IF chunks = <<>> THEN SliceTo(base_chunks, final_k) ELSE chunks

\* the exception of the rr.rerank call (app.py 187) when the cross-encoder
\* cannot be loaded: Reranker.rerank calls _ensure_model outside its try
RerankLoadError == "CrossEncoder load failed"

\* the exception of the extract_answer call (app.py 231-238): the call passes
\* max_chars, join_with, include_headings and dehyphenate, and
\* answer/extract.py 38 is def extract_answer(query, contexts)
ExtractAnswerTypeError ==
    "TypeError: extract_answer() got an unexpected keyword argument 'max_chars'"

\* the rerank branch of query_text and the call of extract_answer
\* (app.py 175-238), from the filtered candidates on.  No call gets past
\* line 231: nothing is returned, no trace is built and no line is logged;
\* the record is the exception and the locals at that point.
QueryFromRerank(c, in, env, fused_ids, ctx_ids, base_chunks, reranking, ret, scores_obj) ==
    LET rr_topk_to_rerank == RrTopkToRerank(c, in)
        rr_final_k        == RrFinalK(c, in)
        rr_min_score      == RrMinScore(c, in)
        no_scores         == [kind |-> "none", list |-> <<>>, dict |-> <<>>]
        chunks            ==
            IF reranking /\ ret.raised THEN base_chunks
            ELSE IF reranking
            THEN SelectAfterRerank(base_chunks, ret.chunks,
                                   Filtered(ret.chunks, scores_obj, rr_min_score), rr_final_k)
            ELSE SliceTo(base_chunks, rr_final_k)
    IN  [raised           |-> TRUE,
         error            |-> IF reranking /\ ret.raised THEN RerankLoadError
                              ELSE ExtractAnswerTypeError,
         chunks           |-> chunks,
         bm25_ids         |-> env.bm25_hits,
         dense_ids        |-> env.dense_hits,
         fused_ids        |-> fused_ids,
         neighbor_ids     |-> ctx_ids,
         base_chunks      |-> base_chunks,
         rr_constructed   |-> RrEnabled(c, in),
         rr_invoked       |-> reranking,
         candidates       |-> IF reranking THEN SliceTo(base_chunks, rr_topk_to_rerank) ELSE <<>>,
         rer_chunks       |-> IF reranking THEN ret.chunks ELSE <<>>,
         scores_obj       |-> IF reranking THEN scores_obj ELSE no_scores,
         reranked_ids     |-> IF reranking /\ ~ret.raised /\ ret.chunks # <<>>
                              THEN SliceTo(ret.chunks, rr_topk_to_rerank) ELSE <<>>,
         reranker_enabled |-> RrEnabled(c, in),
         recall_topk_effective     |-> [lexical |-> TopKLex(c, in), dense |-> TopKDen(c, in)],
         neighbor_radius_effective |-> NeighRadius(c, in),
         rerank_controls  |-> [top_k_to_rerank |-> rr_topk_to_rerank,
                               final_k |-> rr_final_k,
                               min_score |-> rr_min_score]]

\* a query_text that writes its resolved final-k back into the caller's cfg
CfgAfterQueryLeaky(c, in) ==
    [c EXCEPT !.retrieval.reranker.final_k = Some(RrFinalK(c, in))]

\* the caller's cfg after the call: query_text reads and resolves on
\* cfg_run = deepcopy(cfg) only (app.py 103)
CfgAfterQuery(c, in) == c

\* query_text(question, cfg, ...) with the collaborators behaving as env says:
\* how the call ends
query_text(c, in, env) ==
    LET fused_ids   == FusedIds(c, env.bm25_hits, env.dense_hits)
        ctx_ids     == expand_neighbors(fused_ids, ChunkIdOrder, NeighRadius(c, in))
        base_chunks == ApplyFilters(ctx_ids, in)
        candidates  == SliceTo(base_chunks, RrTopkToRerank(c, in))
        scored      == SliceTo(candidates, RrTopkToRerank(c, in))
        ret         == rerank(env.lib, FALSE, candidates, RrTopkToRerank(c, in),
                              env.rr_env, env.pred)
    IN  QueryFromRerank(c, in, env, fused_ids, ctx_ids, base_chunks,
                        RrEnabled(c, in) /\ env.lib /\ base_chunks # <<>>,
                        ret, ScoresObj(ret, env.shape, scored, env.pred))


-----------------------------------------------------------------------------
(* pack_context: synthesizer.py *)

\* a or b on Optional strings: None and "" are falsy
OrElse(a, b) == IF a # None /\ Val(a) # <<>> THEN a ELSE b

\* (x or "") at the end of an or-chain
OrEmpty(a) == IF a # None THEN Val(a) ELSE <<>>

\* [A-Za-z0-9]
IsWordChar(ch) == ch \in {"a", "b", "p", "t", "A", "B", "P", "T"}

\* _WORD_RE.findall(s.lower()): the maximal runs of word characters, in order
RECURSIVE TokensFrom(_, _, _, _)
TokensFrom(str, i, cur, acc) ==
    IF i > Len(str) THEN (IF cur = <<>> THEN acc ELSE Append(acc, cur))
    ELSE IF IsWordChar(str[i]) THEN TokensFrom(str, i + 1, Append(cur, str[i]), acc)
    ELSE TokensFrom(str, i + 1, <<>>, IF cur = <<>> THEN acc ELSE Append(acc, cur))

\* _tokens(s)
Tokens(str) == TokensFrom(Lower(str), 1, <<>>, <<>>)

\* _jaccard(a, b) as an exact fraction [num, den]
Jaccard(a, b) ==
    LET A == Range(a)
        B == Range(b)
    IN  IF A = {} /\ B = {} THEN [num |-> 1, den |-> 1]
        ELSE IF A = {} \/ B = {} THEN [num |-> 0, den |-> 1]
        ELSE [num |-> Cardinality(A \cap B), den |-> Cardinality(A \cup B)]

\* _src_key(ch)
SrcKey(ch) == Lower(OrEmpty(OrElse(ch.path, OrElse(ch.uri, OrElse(ch.source, ch.title)))))

\* (ch.get("text") or ch.get("content") or "").strip()
ChunkText(ch) == Strip(OrEmpty(OrElse(ch.text, ch.content)))

\* per_src_count.get(src, 0)
CountGet(per_src_count, src) ==
    IF src \in DOMAIN per_src_count THEN per_src_count[src] ELSE 0

\* per_src_count[src] = n
CountSet(per_src_count, src, n) ==
    [k \in DOMAIN per_src_count \cup {src} |-> IF k = src THEN n ELSE per_src_count[k]]

\* a quota test that lets one item too many through
QuotaReachedLate(cnt, per_source_quota) ==
    per_source_quota > 0 /\ cnt > per_source_quota

\* per_source_quota > 0 and cnt >= per_source_quota
QuotaReached(cnt, per_source_quota) ==
    per_source_quota > 0 /\ cnt >= per_source_quota

\* a window that always spans the whole history
CompareWindowAll(kept_token_history, compare_last_n) == kept_token_history

\* kept_token_history[-compare_last_n:] if compare_last_n > 0 else kept_token_history
CompareWindow(kept_token_history, compare_last_n) ==
    IF compare_last_n > 0 THEN SliceFrom(kept_token_history, 0 - compare_last_n)
    ELSE kept_token_history

\* the near-duplicate test of one candidate (synthesizer.py 136-141)
IsDup(toks, kept_token_history, near_dup_jaccard, compare_last_n) ==
    /\ near_dup_jaccard # None
    /\ Val(near_dup_jaccard).num > 0
    /\ kept_token_history # <<>>
    /\ \E n \in DOMAIN CompareWindow(kept_token_history, compare_last_n) :
          RGe(Jaccard(toks, CompareWindow(kept_token_history, compare_last_n)[n]),
              Val(near_dup_jaccard))

\* a budget test that also applies to the first accepted item
OverBudgetAlways(used, add, max_chars) == used + add > max_chars

\* a budget test that lets one character too many through
OverBudgetLoose(used, add, max_chars) == used # 0 /\ used + add > max_chars + 1

\* used and used + add > max_chars
OverBudget(used, add, max_chars) == used # 0 /\ used + add > max_chars

\* "Source {i}"
SourceN(i) == <<"S", "o", "u", "r", "c", "e", " ", ToString(i)>>

\* the packed item of the i-th input chunk (synthesizer.py 150-155)
PackedItem(ch, i, n, text) ==
    [id          |-> n,
     title       |-> OrEmpty(OrElse(ch.title, OrElse(ch.file_name,
                                OrElse(ch.source, Some(SourceN(i)))))),
     uri_or_path |-> OrEmpty(OrElse(ch.path, OrElse(ch.uri, ch.source))),
     text        |-> text]

\* the loop state before the first chunk; kept lists, beside out, the input
\* positions of the accepted chunks, and log the branch each visited chunk
\* took: "blank" (126), "quota" (132), "dup" (143), "budget" (148, which
\* leaves the loop) or "kept" (156)
PackStart ==
    [out |-> <<>>, used |-> 0, per_src_count |-> <<>>, kept_token_history |-> <<>>,
     kept |-> <<>>, log |-> <<>>]

\* the loop state after a chunk took the branch b without being accepted
Logged(st, b) == [st EXCEPT !.log = Append(st.log, b)]

\* for i, ch in enumerate(chunks, start=1): ...  (synthesizer.py 123-159)
RECURSIVE PackFrom(_, _, _, _)
PackFrom(st, chunks, i, par) ==
    IF i > Len(chunks) THEN st
    ELSE
      LET ch   == chunks[i]
          text == ChunkText(ch)
          src  == SrcKey(ch)
          cnt  == CountGet(st.per_src_count, src)
          toks == Tokens(text)
          add  == Len(text)
      IN  IF text = <<>> THEN PackFrom(Logged(st, "blank"), chunks, i + 1, par)
          ELSE IF QuotaReached(cnt, par.per_source_quota)
               THEN PackFrom(Logged(st, "quota"), chunks, i + 1, par)
          ELSE IF IsDup(toks, st.kept_token_history, par.near_dup_jaccard, par.compare_last_n)
               THEN PackFrom(Logged(st, "dup"), chunks, i + 1, par)
          ELSE IF OverBudget(st.used, add, par.max_chars) THEN Logged(st, "budget")
          ELSE PackFrom(
                 [out |-> Append(st.out, PackedItem(ch, i, Len(st.out) + 1, text)),
                  used |-> st.used + add,
                  per_src_count |-> CountSet(st.per_src_count, src, cnt + 1),
                  kept_token_history |-> Append(st.kept_token_history, toks),
                  kept |-> Append(st.kept, i),
                  log |-> Append(st.log, "kept")],
                 chunks, i + 1, par)

pack_context(chunks, par) == PackFrom(PackStart, chunks, 1, par)

-----------------------------------------------------------------------------
(* validate_citations, decide_abstain, synthesize_answer: synthesizer.py *)

(* A parsed model response is a record: answer_markdown is a JSON value    *)
(* (the key absent, null, or a string); citations is a list of entries     *)
(* [id], an id being None (no "id" key) or a string; support_coverage,     *)
(* abstain and why are None when the key is absent.                        *)
Absent == [t |-> "absent", v |-> <<>>]
JNull == [t |-> "null", v |-> <<>>]
JStr(s) == [t |-> "str", v |-> s]

\* parsed.get("answer_markdown") or ""
AnswerOrEmpty(a) == IF a.t = "str" THEN a.v ELSE <<>>

\* \d
IsDigit(ch) == ch \in {"0", "1", "2", "3", "4", "5", "6", "7", "8", "9"}

\* \s
IsSpace(ch) == ch = " "

\* [.!?]
IsTerminator(ch) == ch \in {".", "!", "?"}

\* the first index >= j of str that holds no digit (Len(str) + 1 at the end)
RECURSIVE DigitsEnd(_, _)
DigitsEnd(str, j) ==
    IF j <= Len(str) /\ IsDigit(str[j]) THEN DigitsEnd(str, j + 1) ELSE j

\* CITATION_TAG_RE matched at index i: the index of the closing "]", or 0
TagEnd(str, i) ==
    IF i + 3 <= Len(str) /\ str[i] = "[" /\ str[i + 1] = "C"
    THEN LET j == DigitsEnd(str, i + 2)
         IN  IF j > i + 2 /\ j <= Len(str) /\ str[j] = "]" THEN j ELSE 0
    ELSE 0

\* f"C{m}" for m in CITATION_TAG_RE.findall(str), in order of appearance
RECURSIVE TagsFrom(_, _, _)
TagsFrom(str, i, acc) ==
    IF i > Len(str) THEN acc
    ELSE IF TagEnd(str, i) # 0
         THEN TagsFrom(str, TagEnd(str, i) + 1,
                       Append(acc, <<"C">> \o SubSeq(str, i + 2, TagEnd(str, i) - 1)))
    ELSE TagsFrom(str, i + 1, acc)

TagsInText(str) == Range(TagsFrom(str, 1, <<>>))

\* CITATION_TAG_RE.search(s)
HasTag(str) == TagsFrom(str, 1, <<>>) # <<>>

\* the first index >= j of str that holds no whitespace
RECURSIVE SpaceEnd(_, _)
SpaceEnd(str, j) ==
    IF j <= Len(str) /\ IsSpace(str[j]) THEN SpaceEnd(str, j + 1) ELSE j

\* SENT_SPLIT_RE.split(str): cut at every whitespace run that follows . ! or ?
RECURSIVE SplitFrom(_, _, _, _)
SplitFrom(str, start, i, acc) ==
    IF i > Len(str) THEN Append(acc, SubSeq(str, start, Len(str)))
    ELSE IF i > 1 /\ IsSpace(str[i]) /\ IsTerminator(str[i - 1])
         THEN SplitFrom(str, SpaceEnd(str, i), SpaceEnd(str, i),
                        Append(acc, SubSeq(str, start, i - 1)))
    ELSE SplitFrom(str, start, i + 1, acc)

\* _sentences(text)
Sentences(str) ==
    LET parts == SplitFrom(str, 1, 1, <<>>)
        kept  == SelectSeq(parts, LAMBDA s : Strip(s) # <<>>)
    IN  [n \in DOMAIN kept |-> Strip(kept[n])]

\* the preview length of an untagged sentence
PreviewMax == 80

\* (s[:80] + ellipsis) if len(s) > 80 else s; "..." stands for the one
\* ellipsis character
Preview(s) == IF Len(s) > PreviewMax THEN Append(SliceTo(s, PreviewMax), "...") ELSE s

\* {str(c.get("id")) for c in cits if c.get("id")}
DeclaredIds(cits) ==
    {Val(cits[n].id) : n \in {k \in DOMAIN cits : cits[k].id # None /\ Val(cits[k].id) # <<>>}}

\* A reason string: prefix and kind are its fixed text, tags the sorted
\* missing tags, sentence the sentence preview, text what the model wrote
Reason(prefix, kind, tags, sentence, text) ==
    [prefix |-> prefix, kind |-> kind, tags |-> tags, sentence |-> sentence, text |-> text]

NoReason == Reason("", "", {}, <<>>, "")

\* the sentences of ans that hold no tag
Untagged(ans) == SelectSeq(Sentences(ans), LAMBDA s : ~HasTag(s))

\* a strict check that looks at the first sentence only
StrictFailsFirstOnly(ans, strict) ==
    strict /\ ans # <<>> /\ Sentences(ans) # <<>> /\ ~HasTag(Sentences(ans)[1])

\* strict and ans, and some sentence without a tag (synthesizer.py 219-223)
StrictFails(ans, strict) == strict /\ ans # <<>> /\ Untagged(ans) # <<>>

\* validate_citations(parsed, strict) -> [ok, reason]
validate_citations(parsed, strict) ==
    LET ans     == Strip(AnswerOrEmpty(parsed.answer_markdown))
        missing == TagsInText(ans) \ DeclaredIds(parsed.citations)
    IN  IF missing # {}
        THEN [ok |-> FALSE,
              reason |-> Reason("", "answer contains citation tags not in citations array",
                                missing, <<>>, "")]
        ELSE IF StrictFails(ans, strict)
        THEN [ok |-> FALSE,
              reason |-> Reason("", "strict mode: sentence lacks citation tag",
                                {}, Preview(Untagged(ans)[1]), "")]
        ELSE [ok |-> TRUE, reason |-> NoReason]

\* exact fractions, continued
ROne == [num |-> 1, den |-> 1]
RHalf == [num |-> 1, den |-> 2]
RMul(a, b) == [num |-> a.num * b.num, den |-> a.den * b.den]

\* float(x or 0.0)
FloatOrZero(x) == IF x # None THEN Val(x) ELSE RZero

\* max(0.0, min(1.0, v))
Clamp01(v) ==
    LET m == IF RLt(ROne, v) THEN ROne ELSE v
    IN  IF RLt(RZero, m) THEN m ELSE RZero

\* a blend that leaves the similarity out
BlendedCoverageOnly(parsed, avg_sim) == RMul(RHalf, FloatOrZero(parsed.support_coverage))

\* 0.5 * cov + 0.5 * max(0.0, min(1.0, float(avg_sim or 0.0)))
Blended(parsed, avg_sim) ==
    RAdd(RMul(RHalf, FloatOrZero(parsed.support_coverage)),
         RMul(RHalf, Clamp01(FloatOrZero(avg_sim))))

\* a gate that abstains already when blended equals the threshold
BelowThresholdOrEqual(blended, threshold) == ~RLt(threshold, blended)

\* blended < threshold
BelowThreshold(blended, threshold) == RLt(blended, threshold)

\* parsed.get("abstain", False)
ModelAbstains(parsed) == parsed.abstain # None /\ Val(parsed.abstain)

\* parsed.get("why", dflt)
WhyOr(parsed, dflt) == IF parsed.why # None THEN Val(parsed.why) ELSE dflt

\* decide_abstain(parsed, avg_sim, threshold) -> [abstain, why]
decide_abstain(parsed, avg_sim, threshold) ==
    IF BelowThreshold(Blended(parsed, avg_sim), threshold)
    THEN [abstain |-> TRUE, why |-> Reason("", "insufficient support", {}, <<>>, "")]
    ELSE IF ModelAbstains(parsed)
    THEN [abstain |-> TRUE, why |-> Reason("", "", {}, <<>>, WhyOr(parsed, "model abstained"))]
    ELSE [abstain |-> FALSE, why |-> NoReason]

\* str(c.get("id"))
StrOfId(id) == IF id # None THEN Val(id) ELSE <<"N", "o", "n", "e">>

\* the trimming loop (synthesizer.py 310-316)
RECURSIVE TrimFrom(_, _, _, _, _)
TrimFrom(cits, i, seen, trimmed, cite_n) ==
    IF i > Len(cits) THEN trimmed
    ELSE LET cid  == StrOfId(cits[i].id)
             keep == cid # <<>> /\ cid \notin seen
             t2   == IF keep THEN Append(trimmed, cits[i]) ELSE trimmed
         IN  IF Len(t2) >= cite_n THEN t2
             ELSE TrimFrom(cits, i + 1, IF keep THEN seen \cup {cid} ELSE seen, t2, cite_n)

\* a trimming that goes on while the list is not longer than cite_n
TrimCitationsLate(cits, cite_n) ==
    IF cite_n # 0 /\ cits # <<>> THEN TrimFrom(cits, 1, {}, <<>>, cite_n + 1) ELSE cits

\* if cite_n and parsed.get("citations"): ... parsed["citations"] = trimmed
TrimCitations(cits, cite_n) ==
    IF cite_n # 0 /\ cits # <<>> THEN TrimFrom(cits, 1, {}, <<>>, cite_n) ELSE cits

\* the keyword arguments synthesize_answer passes to pack_context
SynthQuota == 3
SynthCompareLastN == 3
SynthPackParams(max_context_chars) ==
    [max_chars |-> max_context_chars, per_source_quota |-> SynthQuota,
     near_dup_jaccard |-> Some([num |-> 9, den |-> 10]),
     compare_last_n |-> SynthCompareLastN]

\* packed[:3]
SnippetMax == 3
Snippets(packed) == SliceTo(packed, SnippetMax)

\* what synthesize_answer hands back: a returned dict, or raised
SynthResult(raised, abstain, why, snippets, answer, citations, llm_called) ==
    [raised |-> raised, abstain |-> abstain, why |-> why, snippets |-> snippets,
     answer_markdown |-> answer, citations |-> citations, llm_called |-> llm_called]

SynthRaised == SynthResult(TRUE, FALSE, NoReason, <<>>, <<>>, <<>>, TRUE)

SynthAbstain(why, snippets, llm_called) ==
    SynthResult(FALSE, TRUE, why, snippets, <<>>, <<>>, llm_called)

\* a gate that calls the model whatever was packed
NoContextNever(packed) == FALSE

\* if not packed
NoContext(packed) == packed = <<>>

\* if not ok
ValidationFailed(v) == ~v.ok

\* why or parsed.get("why", "")
WhyOrParsed(d, parsed) ==
    IF d.why # NoReason THEN d.why ELSE Reason("", "", {}, <<>>, WhyOr(parsed, ""))

\* the steps of synthesize_answer after the model's output was parsed
\* (synthesizer.py 299-327)
SynthFromParsed(packed, parsed, avg_sim, cite_n, threshold, strict) ==
    LET v       == validate_citations(parsed, strict)
        trimmed == [parsed EXCEPT !.citations = TrimCitations(parsed.citations, cite_n)]
        d       == decide_abstain(trimmed, avg_sim, threshold)
    IN  IF ValidationFailed(v)
        THEN SynthAbstain([v.reason EXCEPT !.prefix = "citation validation failed: "],
                          Snippets(packed), TRUE)
        ELSE IF d.abstain
        THEN SynthAbstain(WhyOrParsed(d, trimmed), Snippets(packed), TRUE)
        ELSE IF parsed.answer_markdown.t = "null" THEN SynthRaised
        ELSE SynthResult(FALSE, FALSE, NoReason, <<>>,
                         Strip(AnswerOrEmpty(parsed.answer_markdown)),
                         trimmed.citations, TRUE)

\* synthesize_answer(query, retrieved, avg_sim, max_context_chars, cite_n,
\* abstain_threshold, strict_citations); llm is what _call_local_llm does
\* with the messages: it raises, or returns the parsed response
synthesize_answer(retrieved, avg_sim, max_context_chars, cite_n, threshold, strict, llm) ==
    LET packed == pack_context(retrieved, SynthPackParams(max_context_chars)).out
    IN  IF NoContext(packed)
        THEN SynthAbstain(Reason("", "no usable context provided", {}, <<>>, ""), <<>>, FALSE)
        ELSE IF llm.raises THEN SynthRaised
        ELSE SynthFromParsed(packed, llm.parsed, avg_sim, cite_n, threshold, strict)

-----------------------------------------------------------------------------
(* _extract_first_json_object: synthesizer.py *)

\* the characters of a model output: braces, quote, backslash, colon, blank,
\* newline, backtick, the letters of "json" and "a", and the byte order mark
\* U+FEFF, written "BOM"
Bom == "BOM"
Quote == "\""
Backslash == "\\"
Newline == "\n"

\* \s
IsWhitespace(ch) == ch \in {" ", Newline}

\* the first index >= j of str that holds no whitespace (Len(str) + 1 at the end)
RECURSIVE WhitespaceEnd(_, _)
WhitespaceEnd(str, j) ==
    IF j <= Len(str) /\ IsWhitespace(str[j]) THEN WhitespaceEnd(str, j + 1) ELSE j

\* str[i:].startswith(w)
StartsAt(str, i, w) ==
    i + Len(w) - 1 <= Len(str) /\ SubSeq(str, i, i + Len(w) - 1) = w

\* _BOM_RE.sub("", text): a byte order mark at the very start is dropped
RemoveBom(text) == IF text # <<>> /\ text[1] = Bom THEN Tail(text) ELSE text

\* the backtick character, written "tick"
Tick == "tick"
Fence == <<Tick, Tick, Tick>>

\* ^ and $ under re.MULTILINE
AtLineStart(str, i) == i = 1 \/ str[i - 1] = Newline
AtLineEnd(str, i) == i > Len(str) \/ str[i] = Newline

\* (?:json)? under re.IGNORECASE, from index j
JsonWordEnd(str, j) ==
    IF /\ j + 3 <= Len(str)
       /\ str[j] \in {"j", "J"} /\ str[j + 1] \in {"s", "S"}
       /\ str[j + 2] \in {"o", "O"} /\ str[j + 3] \in {"n", "N"}
    THEN j + 4 ELSE j

\* _CODE_FENCE_RE.sub("", str) from index i on: at each position the opening
\* alternative (line start, fence, optional "json", whitespace) is tried
\* first, then the closing one (whitespace, fence, line end)
RECURSIVE StripFences(_, _)
StripFences(str, i) ==
    IF i > Len(str) THEN <<>>
    ELSE IF AtLineStart(str, i) /\ StartsAt(str, i, Fence)
    THEN StripFences(str, WhitespaceEnd(str, JsonWordEnd(str, i + 3)))
    ELSE IF StartsAt(str, WhitespaceEnd(str, i), Fence)
            /\ AtLineEnd(str, WhitespaceEnd(str, i) + 3)
    THEN StripFences(str, WhitespaceEnd(str, i) + 3)
    ELSE <<str[i]>> \o StripFences(str, i + 1)

\* str.find(ch) + 1
Find(str, ch) ==
    IF \E i \in DOMAIN str : str[i] = ch
    THEN CHOOSE i \in DOMAIN str : str[i] = ch /\ \A j \in 1..(i - 1) : str[j] # ch
    ELSE 0

\* JSON values: an object is its list of members, a string its characters
JObject(members) == [t |-> "object", members |-> members, chars |-> <<>>]
JString(chars) == [t |-> "string", members |-> <<>>, chars |-> chars]
JMember(key, value) == [key |-> key, value |-> value]

ParseFails == [ok |-> FALSE, val |-> JString(<<>>), next |-> 0]
ParseOk(val, next) == [ok |-> TRUE, val |-> val, next |-> next]

\* the body of a JSON string from index j on, acc decoded so far: a quote
\* ends it, a backslash takes the next character (a quote, a backslash or
\* the letter n; no other character of the alphabet makes an escape), a raw
\* newline is refused
RECURSIVE ParseStringBody(_, _, _)
ParseStringBody(str, j, acc) ==
    IF j > Len(str) THEN ParseFails
    ELSE IF str[j] = Quote THEN ParseOk(JString(acc), j + 1)
    ELSE IF str[j] = Backslash
    THEN IF j + 1 > Len(str) THEN ParseFails
         ELSE IF str[j + 1] \in {Quote, Backslash}
         THEN ParseStringBody(str, j + 2, Append(acc, str[j + 1]))
         ELSE IF str[j + 1] = "n" THEN ParseStringBody(str, j + 2, Append(acc, Newline))
         ELSE ParseFails
    ELSE IF str[j] = Newline THEN ParseFails
    ELSE ParseStringBody(str, j + 1, Append(acc, str[j]))

\* a JSON value at index i: a string or an object (the alphabet holds no
\* digit, no literal and no comma, so an object has at most one member)
RECURSIVE ParseValue(_, _)
ParseValue(str, i) ==
    IF i > Len(str) THEN ParseFails
    ELSE IF str[i] = Quote THEN ParseStringBody(str, i + 1, <<>>)
    ELSE IF str[i] # "{" THEN ParseFails
    ELSE LET j == WhitespaceEnd(str, i + 1)
         IN  IF j > Len(str) THEN ParseFails
             ELSE IF str[j] = "}" THEN ParseOk(JObject(<<>>), j + 1)
             ELSE IF str[j] # Quote THEN ParseFails
             ELSE LET key   == ParseStringBody(str, j + 1, <<>>)
                      colon == WhitespaceEnd(str, key.next)
                      value == ParseValue(str, WhitespaceEnd(str, colon + 1))
                      close == WhitespaceEnd(str, value.next)
                  IN  IF ~key.ok \/ colon > Len(str) THEN ParseFails
                      ELSE IF str[colon] # ":" THEN ParseFails
                      ELSE IF ~value.ok \/ close > Len(str) THEN ParseFails
                      ELSE IF str[close] # "}" THEN ParseFails
                      ELSE ParseOk(JObject(<<JMember(key.val.chars, value.val)>>), close + 1)

\* what a call does: returns value, or raises ValueError with a message
ExtractReturns(value) == [raised |-> FALSE, error |-> "", value |-> value]
ExtractRaises(error) == [raised |-> TRUE, error |-> error, value |-> JString(<<>>)]

\* json.loads(str): JSONDecodeError is a ValueError
json_loads(str) ==
    LET r == ParseValue(str, WhitespaceEnd(str, 1))
    IN  IF r.ok /\ WhitespaceEnd(str, r.next) > Len(str)
        THEN ExtractReturns(r.val)
        ELSE ExtractRaises("JSONDecodeError")

\* a scanner for which every quote opens or closes a string
InStrAfterEveryQuote(ch, esc, in_str) == IF ch = Quote THEN ~in_str ELSE in_str

\* in_str after a character: a quote that is not escaped toggles it (51-52)
InStrAfter(ch, esc, in_str) == IF ch = Quote /\ ~esc THEN ~in_str ELSE in_str

\* the scan loop from index i on (synthesizer.py 47-65): the index of the
\* '}' that brings depth back to zero, or 0 when the text ends before
RECURSIVE ScanFrom(_, _, _, _, _)
ScanFrom(cleaned, i, depth, esc, in_str) ==
    IF i > Len(cleaned) THEN 0
    ELSE IF cleaned[i] = Backslash /\ in_str
    THEN ScanFrom(cleaned, i + 1, depth, ~esc, in_str)
    ELSE LET ch   == cleaned[i]
             in2  == InStrAfter(ch, esc, in_str)
             esc2 == IF ch # Backslash THEN FALSE ELSE esc
         IN  IF in2 THEN ScanFrom(cleaned, i + 1, depth, esc2, in2)
             ELSE IF ch = "{" THEN ScanFrom(cleaned, i + 1, depth + 1, esc2, in2)
             ELSE IF ch = "}"
             THEN IF depth - 1 = 0 THEN i
                  ELSE ScanFrom(cleaned, i + 1, depth - 1, esc2, in2)
             ELSE ScanFrom(cleaned, i + 1, depth, esc2, in2)

\* cleaned = _CODE_FENCE_RE.sub("", _BOM_RE.sub("", text))
Cleaned(text) == StripFences(RemoveBom(text), 1)

\* _extract_first_json_object(text); text is None when it is not a str
extract_first_json_object(text) ==
    IF text = None THEN ExtractRaises("Model output is not a string")
    ELSE LET cleaned == Cleaned(Val(text))
             start   == Find(cleaned, "{")
             close   == ScanFrom(cleaned, start, 0, FALSE, FALSE)
         IN  IF start = 0 THEN ExtractRaises("No '{' found in model output.")
             ELSE IF close = 0 THEN ExtractRaises("Unbalanced JSON braces in model output.")
             ELSE json_loads(SubSeq(cleaned, start, close))

-----------------------------------------------------------------------------
(* The index directory: ingest_path (app.py), LexicalIndexer (index/lexical.py), *)
(* DenseIndexer (index/dense.py)                                              *)

\* the files ingest_path writes, in the order it writes them: chunks.jsonl
\* (app.py 60-63), then LexicalIndexer.build (bm25.pkl, chunk_ids_lex.json
\* and chunks.jsonl once more), then DenseIndexer.build (embeddings.npy,
\* chunk_ids.json, and faiss.index when faiss is importable)
IngestWrites(has_faiss) ==
    <<"chunks.jsonl", "bm25.pkl", "chunk_ids_lex.json", "chunks.jsonl",
      "embeddings.npy", "chunk_ids.json">>
        \o (IF has_faiss THEN <<"faiss.index">> ELSE <<>>)

\* the files query_text reads, in the order it reads them: LexicalIndexer.load
\* (bm25.pkl, chunk_ids_lex.json), DenseIndexer.load (chunk_ids.json, then
\* faiss.index or embeddings.npy), and load_chunks_by_ids (chunks.jsonl)
QueryReads(has_faiss) ==
    <<"bm25.pkl", "chunk_ids_lex.json", "chunk_ids.json",
      IF has_faiss THEN "faiss.index" ELSE "embeddings.npy", "chunks.jsonl">>

\* the files of the index directory
IndexFiles(has_faiss) ==
    {IngestWrites(has_faiss)[i] : i \in DOMAIN IngestWrites(has_faiss)}

\* a file: the ingest that wrote it last, whether that write was finished
\* (open(..., "w") empties the file; its content is there when it is closed),
\* and the number n of chunks of that ingest: the file holds one entry (a
\* document, an id, a vector, a line) per chunk
FileTorn(gen, n) == [gen |-> gen, whole |-> FALSE, n |-> n]
FileWritten(gen, n) == [gen |-> gen, whole |-> TRUE, n |-> n]

\* ingest_path is running
IngestRunning(ing) == ing.step >= 1

\* the file the running ingest writes next or is writing
IngestFile(ing, has_faiss) == IngestWrites(has_faiss)[ing.step]

\* a reader: pos 0 before the call, pos n the next read, one past the last
\* read when query_text has loaded everything; failed when a load or a
\* search raised
ReaderIdle == [pos |-> 0, seen |-> <<>>, failed |-> FALSE, after_abort |-> FALSE]
ReaderActive(r, has_faiss) ==
    r.pos >= 1 /\ r.pos <= Len(QueryReads(has_faiss)) /\ ~r.failed
ReaderFinished(r, has_faiss) ==
    r.failed \/ r.pos > Len(QueryReads(has_faiss))

\* query_text searches (app.py 146-147) when the four index files are loaded
\* and before chunks.jsonl is opened
LoadsBeforeSearch(has_faiss) == Len(QueryReads(has_faiss)) - 1

\* whether a search raises, as the set of the outcomes the scores of the
\* question allow: the search ranks the n_index entries of the loaded index
\* and looks each of the first top_k row numbers up in the loaded id list of
\* n_ids ids; chunk_id_order[i] raises IndexError for a row number past the
\* end of the list.  Which rows rank first depends on the scores: one of
\* the first top_k can lie past the list when the index holds more entries
\* than the list and top_k >= 1, and all of them can lie within it when
\* the index holds no more entries than the list or top_k <= n_ids.
SearchRaises(n_index, n_ids, top_k) ==
    {r \in BOOLEAN : IF r THEN n_index > n_ids /\ top_k >= 1
                             ELSE n_index <= n_ids \/ top_k <= n_ids}

\* lex.search (lexical.py 74-82): bm25 against chunk_ids_lex.json, the first
\* top_k of the scored documents (line 80).  seen is what the four loads
\* found.
LexSearchRaises(seen, top_k) == SearchRaises(seen[1].n, seen[2].n, top_k)

\* dense.search (dense.py 52-76): the top_k rows of the faiss index or of the
\* matrix against chunk_ids.json (line 74)
DenseSearchRaises(seen, top_k) == SearchRaises(seen[4].n, seen[3].n, top_k)

\* pickle.load, json.loads, np.load and faiss.read_index raise on a file
\* whose write is not finished; _ensure_chunk_map reads chunks.jsonl line by
\* line and may get through the lines that are there
MustRaiseOnTorn(name) == name # "chunks.jsonl"

-----------------------------------------------------------------------------
(* Idle values of the components a specification does not exercise *)

FuseIdle   == bm25_hits = <<>> /\ dense_hits = <<>> /\ rrf_k = RrfKDefault /\ merged = <<>>
RerankIdle ==
    /\ self_enabled = FALSE /\ self_model = FALSE /\ rr_chunks = <<>> /\ rr_top_k = 0
    /\ rr_env = "ok" /\ rr_pred = <<>> /\ rr_ret = RerankNoOp(<<>>, 0)
QueryIdle ==
    /\ cfg = <<>> /\ q_in = <<>> /\ q_env = <<>> /\ q_ret = <<>>
    /\ cfg_loaded = <<>> /\ q_earlier = FALSE
PackIdle ==
    /\ pk_chunks = <<>> /\ pk_params = <<>> /\ pk_ret = PackStart
ValidateIdle == vc_parsed = <<>> /\ vc_strict = FALSE /\ vc_ret = <<>>
AbstainIdle == da_parsed = <<>> /\ da_avg_sim = <<>> /\ da_threshold = <<>> /\ da_ret = <<>>
SynthIdle == sy_args = <<>> /\ sy_llm = <<>> /\ sy_ret = <<>>
AnswerIdle == ValidateIdle /\ AbstainIdle /\ SynthIdle
RetrievalIdle == FuseIdle /\ RerankIdle /\ QueryIdle /\ PackIdle
ExpandIdle == ids = <<>> /\ order_list = <<>> /\ radius = 0 /\ expanded = <<>> /\ reexpanded = <<>>
ExtractIdle == ex_text = <<>> /\ ex_ret = <<>>
IndexIdle ==
    /\ files = <<>> /\ ingest = <<>> /\ readers = <<>> /\ overlapped = <<>> /\ faiss = FALSE

-----------------------------------------------------------------------------
(* SpecFuse: rrf_merge applied to every pair of hit lists *)

InitFuse ==
    /\ pc = "call"
    /\ ExtractIdle
    /\ IndexIdle
    /\ bm25_hits \in DistinctSeqsUpTo(Ids, MaxHits)
    /\ dense_hits \in DistinctSeqsUpTo(Ids, MaxHits)
    /\ rrf_k \in RrfKs
    /\ merged = <<>>
    /\ ExpandIdle
    /\ RerankIdle
    /\ QueryIdle
    /\ PackIdle
    /\ AnswerIdle

RrfMerge ==
    /\ pc = "call"
    /\ merged' = rrf_merge(bm25_hits, dense_hits, rrf_k)
    /\ pc' = "merged"
    /\ UNCHANGED <<bm25_hits, dense_hits, rrf_k, expandVars, rerankVars, queryVars, packVars, answerVars,
                   extractVars, indexVars>>

NextFuse == RrfMerge

SpecFuse == InitFuse /\ [][NextFuse]_vars

-----------------------------------------------------------------------------
(* SpecExpand: expand_neighbors, then a re-expansion of its output with radius 0 *)

InitExpand ==
    /\ pc = "call"
    /\ ExtractIdle
    /\ IndexIdle
    /\ ids \in SeqsUpTo(Ids, MaxIdsLen)
    /\ order_list \in DistinctSeqsUpTo(Ids, NumIds)
    /\ radius \in (-1)..MaxRadius
    /\ expanded = <<>>
    /\ reexpanded = <<>>
    /\ FuseIdle
    /\ RerankIdle
    /\ QueryIdle
    /\ PackIdle
    /\ AnswerIdle

ExpandNeighbors ==
    /\ pc = "call"
    /\ expanded' = expand_neighbors(ids, order_list, radius)
    /\ pc' = "expanded"
    /\ UNCHANGED <<ids, order_list, radius, reexpanded, fuseVars, rerankVars, queryVars, packVars, answerVars,
                   extractVars, indexVars>>

ReExpand ==
    /\ pc = "expanded"
    /\ reexpanded' = expand_neighbors(expanded, order_list, 0)
    /\ pc' = "reexpanded"
    /\ UNCHANGED <<ids, order_list, radius, expanded, fuseVars, rerankVars, queryVars, packVars, answerVars,
                   extractVars, indexVars>>

NextExpand == ExpandNeighbors \/ ReExpand

SpecExpand == InitExpand /\ [][NextExpand]_vars


-----------------------------------------------------------------------------
(* SpecRerank: a Reranker is constructed, its model is loaded already or   *)
(* not, and rerank is called on it                                         *)

InitRerank ==
    /\ pc = "constructed"
    /\ ExtractIdle
    /\ IndexIdle
    /\ self_enabled \in BOOLEAN
    /\ self_model = FALSE
    /\ rr_chunks = <<>> /\ rr_top_k = 0 /\ rr_env = "ok" /\ rr_pred = <<>>
    /\ rr_ret = RerankNoOp(<<>>, 0)
    /\ FuseIdle
    /\ ExpandIdle
    /\ QueryIdle
    /\ PackIdle
    /\ AnswerIdle

\* Reranker._ensure_model() succeeding on an enabled reranker
EnsureModel ==
    /\ pc = "constructed"
    /\ self_enabled
    /\ ~self_model
    /\ self_model' = TRUE
    /\ UNCHANGED <<pc, self_enabled, rr_chunks, rr_top_k, rr_env, rr_pred, rr_ret,
                   fuseVars, expandVars, queryVars, packVars, answerVars, extractVars, indexVars>>

RerankCall ==
    /\ pc = "constructed"
    /\ \E chunks \in DistinctSeqsUpTo(Ids, NumIds), top_k \in TopKs, env \in RerankEnvs :
         \E pred \in [1..Len(SliceTo(chunks, top_k)) -> ScoreVals] :
            \* a loaded model is not constructed again; predict is reached only
            \* by an enabled reranker whose model is there
            /\ self_model => env # "load_raises"
            /\ (env # "ok" \/ ~self_enabled) => pred = [i \in 1..Len(SliceTo(chunks, top_k)) |-> 0]
            /\ rr_chunks' = chunks
            /\ rr_top_k' = top_k
            /\ rr_env' = env
            /\ rr_pred' = pred
            /\ rr_ret' = rerank(self_enabled, self_model, chunks, top_k, env, pred)
            /\ self_model' = ModelAfter(self_enabled, self_model, chunks, env)
    /\ pc' = "returned"
    /\ UNCHANGED <<self_enabled, fuseVars, expandVars, queryVars, packVars, answerVars,
                   extractVars, indexVars>>

NextRerank == EnsureModel \/ RerankCall

SpecRerank == InitRerank /\ [][NextRerank]_vars

-----------------------------------------------------------------------------
(* SpecQuery: one query_text call on a loaded configuration *)

\* the loaded configurations (config.yaml): reranker switched on or off, a
\* rerank budget of none or two candidates, and final_k absent or 2
Cfgs ==
    {[retrieval |->
        [top_k_lexical |-> 2, top_k_dense |-> 1, neighborhood |-> 1, rrf_k |-> RrfKDefault,
         reranker |-> [enabled |-> en, top_k_to_rerank |-> tk, final_k |-> fk, min_score |-> 0]]] :
     en \in BOOLEAN, tk \in {0, 2}, fk \in {None, Some(2)}}

\* the arguments of a call: every override absent or given
QueryInputs ==
    [final_k          : {None, Some(1), Some(3)},
     file_filters     : {None, Some(<< <<" ", "a", "B">> >>)},
     page_range       : {None, Some(<<1, 2>>), Some(<<2, 2>>)},
     recall_topk      : {None, Some(1)},
     rerank_topk      : {None, Some(3)},
     min_rerank_score : {None, Some(1)},
     no_rerank        : BOOLEAN,
     neighbor_window  : {None, Some(0)}]

ScoreShapes == {"list", "dict"}

InitQuery ==
    /\ pc = "ready"
    /\ ExtractIdle
    /\ IndexIdle
    /\ cfg \in Cfgs
    /\ cfg_loaded = cfg
    /\ q_earlier = FALSE
    /\ q_in = <<>> /\ q_env = <<>> /\ q_ret = <<>>
    /\ FuseIdle
    /\ ExpandIdle
    /\ RerankIdle
    /\ PackIdle
    /\ AnswerIdle

\* One call of query_text.  Each stage's value is bound once and handed on,
\* so the action computes query_text(cfg, in, env) stage by stage.
QueryText ==
    /\ pc = "ready"
    /\ \E in \in QueryInputs, lib \in BOOLEAN :
       \E bm25 \in {h \in DistinctSeqsUpTo(Ids, NumIds) : Len(h) = RecallLen(TopKLex(cfg, in))},
          dense \in {h \in DistinctSeqsUpTo(Ids, NumIds) : Len(h) = RecallLen(TopKDen(cfg, in))} :
       \E fused_ids \in {FusedIds(cfg, bm25, dense)} :
       \E ctx_ids \in {expand_neighbors(fused_ids, ChunkIdOrder, NeighRadius(cfg, in))} :
       \E base_chunks \in {ApplyFilters(ctx_ids, in)} :
       \E candidates \in {SliceTo(base_chunks, RrTopkToRerank(cfg, in))} :
       \E scored \in {SliceTo(candidates, RrTopkToRerank(cfg, in))} :
       \* the cross-encoder is reached only when the reranker runs on candidates
       \E called \in {RrEnabled(cfg, in) /\ lib /\ scored # <<>>} :
       \E rrenv \in IF called THEN RerankEnvs ELSE {"ok"} :
       \E shape \in IF called /\ rrenv = "ok" THEN ScoreShapes ELSE {"list"} :
       \E pred \in IF called /\ rrenv = "ok" THEN [DOMAIN scored -> ScoreVals]
                   ELSE {[i \in DOMAIN scored |-> 0]} :
       \E env \in {[lib |-> lib, bm25_hits |-> bm25, dense_hits |-> dense,
                    rr_env |-> rrenv, shape |-> shape, pred |-> pred]} :
       \E ret \in {rerank(lib, FALSE, candidates, RrTopkToRerank(cfg, in), rrenv, pred)} :
          /\ q_in' = in
          /\ q_env' = env
          /\ cfg' = CfgAfterQuery(cfg, in)
          /\ q_ret' = QueryFromRerank(cfg, in, env, fused_ids, ctx_ids, base_chunks,
                                      RrEnabled(cfg, in) /\ lib /\ base_chunks # <<>>,
                                      ret, ScoresObj(ret, shape, scored, pred))
    /\ pc' = "raised"
    /\ UNCHANGED <<cfg_loaded, q_earlier, fuseVars, expandVars, rerankVars, packVars, answerVars,
                   extractVars, indexVars>>

NextQuery == QueryText

SpecQuery == InitQuery /\ [][NextQuery]_vars

-----------------------------------------------------------------------------
(* SpecQuerySeq: a run of query_text calls on one loaded configuration *)

\* the per-call overrides, without the file and page filters
SeqInputs == {in \in QueryInputs : in.file_filters = None /\ in.page_range = None}

\* the call carries one of the overrides
HasOverride(in) ==
    \/ in.recall_topk # None
    \/ in.rerank_topk # None
    \/ in.final_k # None
    \/ in.min_rerank_score # None
    \/ in.no_rerank
    \/ in.neighbor_window # None

\* the index answers with the first top_k chunks of the corpus and the
\* cross-encoder, where installed, scores every candidate 0: predict gives
\* one score per pair, and rerank pairs the question with each of the first
\* top_k candidates (rerank.py 36-44)
SeqEnv(c, in, lib) ==
    LET bm25        == SliceTo(ChunkIdOrder, TopKLex(c, in))
        dense       == SliceTo(ChunkIdOrder, TopKDen(c, in))
        fused_ids   == FusedIds(c, bm25, dense)
        ctx_ids     == expand_neighbors(fused_ids, ChunkIdOrder, NeighRadius(c, in))
        base_chunks == ApplyFilters(ctx_ids, in)
        candidates  == SliceTo(base_chunks, RrTopkToRerank(c, in))
        scored      == SliceTo(candidates, RrTopkToRerank(c, in))
    IN  [lib        |-> lib,
         bm25_hits  |-> bm25,
         dense_hits |-> dense,
         rr_env     |-> "ok",
         shape      |-> "list",
         pred       |-> [i \in DOMAIN scored |-> 0]]

InitQuerySeq == InitQuery

\* One more query_text call on the same cfg object: the first, or one that
\* follows a call whose exception the caller caught.
QueryInSequence ==
    /\ pc \in {"ready", "raised"}
    /\ \E in \in SeqInputs, lib \in BOOLEAN :
       \E env \in {SeqEnv(cfg, in, lib)} :
          /\ q_in' = in
          /\ q_env' = env
          /\ q_ret' = query_text(cfg, in, env)
          /\ cfg' = CfgAfterQuery(cfg, in)
    /\ q_earlier' = (q_earlier \/ (pc = "raised" /\ HasOverride(q_in)))
    /\ pc' = "raised"
    /\ UNCHANGED <<cfg_loaded, fuseVars, expandVars, rerankVars, packVars, answerVars,
                   extractVars, indexVars>>

NextQuerySeq == QueryInSequence

SpecQuerySeq == InitQuerySeq /\ [][NextQuerySeq]_vars

-----------------------------------------------------------------------------
(* SpecPack: pack_context applied to every chunk list and parameter choice *)

\* a retrieved chunk dict; an absent key is None
PackChunk(text, content, title, path, uri) ==
    [text |-> text, content |-> content, title |-> title, file_name |-> None,
     path |-> path, uri |-> uri, source |-> None]

\* the texts: "a", "A!" (the same token set as "a") and "a b"
PackTexts == {<<"a">>, <<"A", "!">>, <<"a", " ", "b">>}

\* the chunks handed to pack_context: one whose text is blank, and every
\* text from three sources: path "p" (title "t"), uri "P" (the same key as
\* path "p") and title "T" alone
PackChunks ==
    {PackChunk(Some(<<" ">>), Some(<<"a">>), None, Some(<<"p">>), None)}
    \cup {PackChunk(Some(t), None, Some(<<"t">>), Some(<<"p">>), Some(<<"b">>)) : t \in PackTexts}
    \cup {PackChunk(None, Some(t), None, None, Some(<<"P">>)) : t \in PackTexts}
    \cup {PackChunk(Some(t), None, Some(<<"T">>), None, None) : t \in PackTexts}

\* parameter choices: a budget of 2 or 4 characters; quota off, 1 or 2;
\* threshold off, 1/2 or 9/10; compare with every kept item or the last one
PackParams ==
    [max_chars        : {2, 4},
     per_source_quota : {0, 1, 2},
     near_dup_jaccard : {Some([num |-> 0, den |-> 1]), Some([num |-> 1, den |-> 2]),
                         Some([num |-> 9, den |-> 10])},
     compare_last_n   : {0, 1}]

InitPack ==
    /\ pc = "call"
    /\ ExtractIdle
    /\ IndexIdle
    /\ pk_chunks = <<>> /\ pk_params = <<>> /\ pk_ret = PackStart
    /\ FuseIdle
    /\ ExpandIdle
    /\ RerankIdle
    /\ QueryIdle
    /\ AnswerIdle

PackContext ==
    /\ pc = "call"
    /\ \E chunks \in SeqsUpTo(PackChunks, MaxPack), par \in PackParams :
          /\ pk_chunks' = chunks
          /\ pk_params' = par
          /\ pk_ret' = pack_context(chunks, par)
    /\ pc' = "packed"
    /\ UNCHANGED <<fuseVars, expandVars, rerankVars, queryVars, answerVars,
                   extractVars, indexVars>>

NextPack == PackContext

SpecPack == InitPack /\ [][NextPack]_vars

-----------------------------------------------------------------------------
(* Properties of rrf_merge *)

MergedIds == {merged[i].chunk_id : i \in DOMAIN merged}

\* the closed form of the fused score of cid, from its 1-based ranks
RrfClosedForm(cid) ==
    LET ra == IndexOf(bm25_hits, cid)
        rb == IndexOf(dense_hits, cid)
    IN  IF ra > 0 /\ rb > 0 THEN RAdd(Recip(rrf_k + ra), Recip(rrf_k + rb))
        ELSE IF ra > 0 THEN Recip(rrf_k + ra)
        ELSE Recip(rrf_k + rb)

\* C6: rrf_merge returns every identifier of either list exactly once, scored
\* 1/(k+rankA) + 1/(k+rankB) when in both lists and by its own list's term
\* when in one; empty lists contribute nothing.
C6_RrfScores ==
    pc = "merged" =>
        /\ MergedIds = Range(bm25_hits) \cup Range(dense_hits)
        /\ Len(merged) = Cardinality(Range(bm25_hits) \cup Range(dense_hits))
        /\ \A i \in DOMAIN merged : REq(merged[i].score, RrfClosedForm(merged[i].chunk_id))

C6_Witness ==
    /\ pc = "merged"
    /\ \E c \in Ids : /\ IndexOf(bm25_hits, c) > 0 /\ IndexOf(dense_hits, c) > 0
                      /\ IndexOf(bm25_hits, c) # IndexOf(dense_hits, c)
    /\ \E c \in Ids : c \in Range(bm25_hits) /\ c \notin Range(dense_hits)
    /\ \E c \in Ids : c \in Range(dense_hits) /\ c \notin Range(bm25_hits)

\* position at which cid was first inserted into the score dict
FirstEncounter(cid) ==
    IF cid \in Range(bm25_hits) THEN IndexOf(bm25_hits, cid)
    ELSE Len(bm25_hits) + IndexOf(dense_hits, cid)

\* C7: the merged hits are in non-increasing score, and hits of equal score
\* are in first-encountered order (lexical ids in lexical order, then the
\* dense-only ids).
C7_RrfOrder ==
    pc = "merged" =>
        \A i, j \in DOMAIN merged :
            i < j =>
                /\ RGe(merged[i].score, merged[j].score)
                /\ REq(merged[i].score, merged[j].score) =>
                       FirstEncounter(merged[i].chunk_id) < FirstEncounter(merged[j].chunk_id)

C7_Witness ==
    /\ pc = "merged"
    /\ \E i, j \in DOMAIN merged :
          /\ i < j
          /\ REq(merged[i].score, merged[j].score)
          /\ merged[i].chunk_id \in Range(bm25_hits)
          /\ merged[j].chunk_id \notin Range(bm25_hits)
    /\ \E i, j \in DOMAIN merged : i < j /\ RLt(merged[j].score, merged[i].score)

-----------------------------------------------------------------------------
(* Properties of expand_neighbors *)

Abs(n) == IF n >= 0 THEN n ELSE 0 - n

\* x lies in the window of the i-th input id
InWindowOf(x, i) ==
    /\ ids[i] \in Range(order_list)
    /\ x \in Range(order_list)
    /\ Abs(IndexOf(order_list, ids[i]) - IndexOf(order_list, x)) <= radius

\* the first input id whose window holds x
FirstVisit(x) ==
    CHOOSE i \in DOMAIN ids : InWindowOf(x, i) /\ \A j \in 1..(i-1) : ~InWindowOf(x, j)

\* C8: for radius >= 0 and an order without repeats, expand_neighbors returns,
\* without duplicates, the ids of the clipped windows [p-radius, p+radius] of
\* the input ids present in the order, window by window in input order and in
\* ascending position within a window; with radius 0 that is the deduplicated
\* input restricted to the order, and re-expanding an output with radius 0
\* returns it unchanged.
C8_ExpandNeighbors ==
    (pc \in {"expanded", "reexpanded"} /\ radius >= 0) =>
        /\ NoDup(expanded)
        /\ Range(expanded) = {x \in Range(order_list) : \E i \in DOMAIN ids : InWindowOf(x, i)}
        /\ \A a, b \in DOMAIN expanded :
              a < b =>
                 \/ FirstVisit(expanded[a]) < FirstVisit(expanded[b])
                 \/ /\ FirstVisit(expanded[a]) = FirstVisit(expanded[b])
                    /\ IndexOf(order_list, expanded[a]) < IndexOf(order_list, expanded[b])
        /\ radius = 0 =>
              /\ Range(expanded) = Range(ids) \cap Range(order_list)
              /\ \A a, b \in DOMAIN expanded :
                    a < b => IndexOf(ids, expanded[a]) < IndexOf(ids, expanded[b])
        /\ pc = "reexpanded" => reexpanded = expanded

C8_Witness ==
    /\ pc = "reexpanded"
    /\ radius >= 1
    /\ \E i \in DOMAIN ids : ids[i] \notin Range(order_list)
    /\ ~NoDup(ids)
    /\ \E i \in DOMAIN ids :
          /\ ids[i] \in Range(order_list)
          /\ IndexOf(order_list, ids[i]) + radius > Len(order_list)
    /\ Len(expanded) >= 2


-----------------------------------------------------------------------------
(* Properties of Reranker.rerank *)

\* the call reached predict and predict returned scores
RerankScoringSucceeded ==
    /\ pc = "returned"
    /\ self_enabled
    /\ rr_chunks # <<>>
    /\ rr_env = "ok"

\* the cross-encoder score of chunk c in this call (c is in the scored prefix)
PredOf(c) == rr_pred[IndexOf(rr_chunks, c)]

\* number of scored candidates: min(top_k, n)
ScoredLen == Min2(rr_top_k, Len(rr_chunks))

\* C3: when scoring succeeds, the i-th returned score is the cross-encoder
\* score of the i-th returned candidate, for every i < min(top_k, n), so the
\* returned scores are non-increasing.
C3_ScoresAligned ==
    (RerankScoringSucceeded /\ rr_top_k >= 0) =>
        /\ rr_ret.scores # None
        /\ \A i \in 1..ScoredLen :
              /\ i \in DOMAIN Val(rr_ret.scores)
              /\ Val(rr_ret.scores)[i] = PredOf(rr_ret.chunks[i])
        /\ \A i, j \in 1..ScoredLen :
              i < j => Val(rr_ret.scores)[i] >= Val(rr_ret.scores)[j]

\* C4: when scoring succeeds, the returned chunks are a permutation of the
\* input whose first min(top_k, n) positions hold the first top_k inputs in
\* descending score, equal scores in input order, followed by the remaining
\* inputs in their original order.
C4_RerankPermutation ==
    (RerankScoringSucceeded /\ rr_top_k >= 0) =>
        LET out == rr_ret.chunks
        IN  /\ Len(out) = Len(rr_chunks)
            /\ NoDup(out)
            /\ Range(out) = Range(rr_chunks)
            /\ {out[i] : i \in 1..ScoredLen} = {rr_chunks[i] : i \in 1..ScoredLen}
            /\ \A i, j \in 1..ScoredLen :
                  i < j =>
                     /\ PredOf(out[i]) >= PredOf(out[j])
                     /\ PredOf(out[i]) = PredOf(out[j]) =>
                            IndexOf(rr_chunks, out[i]) < IndexOf(rr_chunks, out[j])
            /\ \A i \in (ScoredLen + 1)..Len(rr_chunks) : out[i] = rr_chunks[i]

C4_Witness ==
    /\ RerankScoringSucceeded
    /\ rr_top_k >= 2
    /\ rr_top_k < Len(rr_chunks)
    /\ rr_pred[1] < rr_pred[2]
    /\ rr_ret.chunks # rr_chunks

\* C5: rerank returns its input unchanged with no scores, and raises nothing,
\* whenever the reranker is not enabled, the candidate list is empty, or the
\* scoring call raises.
C5_RerankNoOp ==
    (/\ pc = "returned"
     /\ \/ ~self_enabled
        \/ rr_chunks = <<>>
        \/ (rr_env = "predict_raises"))
    => /\ rr_ret.chunks = rr_chunks
       /\ rr_ret.scores = None
       /\ rr_ret.raised = FALSE

C5_Witness ==
    /\ pc = "returned"
    /\ self_enabled
    /\ rr_env = "predict_raises"
    /\ Len(rr_chunks) >= 2
    /\ rr_top_k >= 0
    /\ rr_top_k < Len(rr_chunks)


-----------------------------------------------------------------------------
(* Properties of query_text *)

\* a query_text call that made its final selection (app.py 175-221): it was
\* left by the extract_answer call, not by the rerank call.  No call
\* returns, so the selection is the local chunks at that point.
SelectionMade == pc = "raised" /\ q_ret.error = ExtractAnswerTypeError

\* the query made its selection and its reranker scored the candidates
QueryScored ==
    /\ SelectionMade
    /\ q_ret.scores_obj.kind # "none"

\* C1: with the reranker enabled and its cross-encoder available, a non-empty
\* filtered candidate list and an effective final-k of at least 1 give a
\* non-empty final selection, for every cutoff and every score payload.
C1_SafeFallback ==
    (/\ SelectionMade
     /\ q_ret.reranker_enabled
     /\ q_env.lib
     /\ q_ret.base_chunks # <<>>
     /\ q_ret.rerank_controls.final_k >= 1)
    => q_ret.chunks # <<>>

\* the cutoff removed every reranked candidate and the selection fell back
C1_Witness ==
    /\ QueryScored
    /\ q_ret.reranker_enabled
    /\ q_env.lib
    /\ q_env.shape = "dict"
    /\ Len(q_ret.rer_chunks) >= 2
    /\ Filtered(q_ret.rer_chunks, q_ret.scores_obj, q_ret.rerank_controls.min_score) = <<>>
    /\ q_ret.rerank_controls.final_k >= 1
    /\ q_ret.chunks # <<>>

\* the cross-encoder score of reranked chunk ch in this query
OwnScore(ch) ==
    q_env.pred[IndexOf(SliceTo(q_ret.base_chunks, q_ret.rerank_controls.top_k_to_rerank), ch)]

\* the reranked chunks whose own score reaches the cutoff
ReachingCutoff ==
    LET Ok(ch) == OwnScore(ch) >= q_ret.rerank_controls.min_score
    IN  SelectSeq(q_ret.rer_chunks, Ok)

\* C2: when the reranker returned scores and some candidate's score reaches
\* the cutoff, the final selection is the first final-k of the reranked
\* chunks whose own score reaches the cutoff; when none does, it is the
\* unfiltered reranked list cut to final-k.
C2_CutoffByOwnScore ==
    QueryScored =>
        IF ReachingCutoff # <<>>
        THEN q_ret.chunks = SliceTo(ReachingCutoff, q_ret.rerank_controls.final_k)
        ELSE q_ret.chunks = SliceTo(q_ret.rer_chunks, q_ret.rerank_controls.final_k)


-----------------------------------------------------------------------------
(* Properties of pack_context *)

\* the returned items that come from input chunks with source key k
ItemsOfSource(k) == {n \in DOMAIN pk_ret.out : SrcKey(pk_chunks[pk_ret.kept[n]]) = k}

SourceKeys == {SrcKey(pk_chunks[i]) : i \in DOMAIN pk_chunks}

\* C9 as claimed: for every per_source_quota, at most per_source_quota
\* returned items share a source key.
C9_QuotaEveryValue ==
    pc = "packed" =>
        \A k \in SourceKeys : Cardinality(ItemsOfSource(k)) <= pk_params.per_source_quota

\* C9 amended: for every per_source_quota > 0, at most per_source_quota
\* returned items share a source key (path, else uri, else source, else
\* title, lower-cased).
C9_QuotaPositive ==
    (pc = "packed" /\ pk_params.per_source_quota > 0) =>
        \A k \in SourceKeys : Cardinality(ItemsOfSource(k)) <= pk_params.per_source_quota

\* a chunk was turned away by the quota: more candidates of one source than
\* the quota, keyed by path and by uri in another case
C9_Witness ==
    /\ pc = "packed"
    /\ pk_params.per_source_quota = 2
    /\ Len(pk_chunks) = 3
    /\ Cardinality(SourceKeys) = 1
    /\ \E i, j \in DOMAIN pk_chunks : pk_chunks[i].path # None /\ pk_chunks[j].path = None
    /\ \A i \in DOMAIN pk_chunks : ChunkText(pk_chunks[i]) # <<>>
    /\ pk_params.near_dup_jaccard = Some([num |-> 0, den |-> 1])
    /\ Len(pk_ret.out) = 2
    /\ pk_ret.used < pk_params.max_chars

\* C10: pack_context returns at least one item whenever some input chunk has
\* text that is non-empty after trimming, for every max_chars, quota and
\* near-duplicate threshold.
C10_NonEmptyPack ==
    (pc = "packed" /\ \E i \in DOMAIN pk_chunks : ChunkText(pk_chunks[i]) # <<>>)
    => pk_ret.out # <<>>

\* the first usable chunk is longer than the whole budget and follows a blank one
C10_Witness ==
    /\ pc = "packed"
    /\ Len(pk_chunks) >= 2
    /\ ChunkText(pk_chunks[1]) = <<>>
    /\ Len(ChunkText(pk_chunks[2])) > pk_params.max_chars
    /\ Len(pk_ret.out) = 1
    /\ pk_ret.out[1].text = ChunkText(pk_chunks[2])

\* the next input chunk after the loop stopped on the budget test
AfterStop == Len(pk_ret.log) + 1

\* the chunk after the stop is usable, within its source's quota, no
\* near-duplicate of the kept items, and fits in what is left of max_chars
FitsAfterStop ==
    /\ pk_ret.log # <<>>
    /\ pk_ret.log[Len(pk_ret.log)] = "budget"
    /\ AfterStop \in DOMAIN pk_chunks
    /\ ChunkText(pk_chunks[AfterStop]) # <<>>
    /\ ~QuotaReached(CountGet(pk_ret.per_src_count, SrcKey(pk_chunks[AfterStop])),
                     pk_params.per_source_quota)
    /\ ~IsDup(Tokens(ChunkText(pk_chunks[AfterStop])), pk_ret.kept_token_history,
              pk_params.near_dup_jaccard, pk_params.compare_last_n)
    /\ pk_ret.used + Len(ChunkText(pk_chunks[AfterStop])) <= pk_params.max_chars

\* C11: a candidate that would push the accepted total past max_chars is
\* skipped and packing goes on: the candidate after it, when it passes the
\* quota and near-duplicate checks and fits in the remaining budget, is
\* accepted.
C11_SkipAndContinue ==
    (pc = "packed" /\ FitsAfterStop) => \E n \in DOMAIN pk_ret.kept : pk_ret.kept[n] = AfterStop

\* the total character length of the returned items, summed from the items
RECURSIVE TotalChars(_)
TotalChars(items) ==
    IF items = <<>> THEN 0 ELSE Len(items[1].text) + TotalChars(Tail(items))

\* C12: the total character length of the returned items never exceeds
\* max_chars, except when exactly one item is returned.
C12_BudgetRespected ==
    pc = "packed" => (TotalChars(pk_ret.out) <= pk_params.max_chars \/ Len(pk_ret.out) = 1)

\* two items fill the budget to the last character and a third candidate is
\* turned away by the budget test
C12_Witness ==
    /\ pc = "packed"
    /\ Len(pk_ret.out) = 2
    /\ TotalChars(pk_ret.out) = pk_params.max_chars
    /\ pk_ret.log = <<"kept", "kept", "budget">>

\* the token lists of the chunks accepted before input position i
KeptBefore(i) ==
    LET before == SelectSeq(pk_ret.kept, LAMBDA p : p < i)
    IN  [n \in DOMAIN before |-> Tokens(ChunkText(pk_chunks[before[n]]))]

\* the candidate at position i is at or above the threshold against one of
\* the last compare_last_n items accepted before it
NearDupOfLast(i) ==
    LET hist == KeptBefore(i)
    IN  \E n \in DOMAIN hist :
           /\ n > Len(hist) - pk_params.compare_last_n
           /\ ~RLt(Jaccard(Tokens(ChunkText(pk_chunks[i])), hist[n]),
                   Val(pk_params.near_dup_jaccard))

\* no accepted candidate is a near-duplicate of the last compare_last_n
\* accepted items, and every candidate dropped as a duplicate is one
NearDupExact ==
    \A i \in DOMAIN pk_ret.log :
        /\ pk_ret.log[i] = "kept" => ~NearDupOfLast(i)
        /\ pk_ret.log[i] = "dup" => NearDupOfLast(i)

\* C13 as claimed: for every threshold and every compare window,
\* pack_context never accepts a candidate whose Jaccard similarity to one of
\* the last compare_last_n accepted items is >= the threshold, and never
\* drops as a duplicate a candidate that is below it against all of them.
C13_NearDupEveryParam ==
    pc = "packed" => NearDupExact

\* C13 amended: the same, for a threshold > 0 and a compare window > 0.
C13_NearDupPositive ==
    (/\ pc = "packed"
     /\ pk_params.near_dup_jaccard # None
     /\ Val(pk_params.near_dup_jaccard).num > 0
     /\ pk_params.compare_last_n > 0) => NearDupExact

\* with threshold 9/10 and a window of one, "A!" is dropped as a duplicate
\* of "a" and "a b" is then accepted after being compared with "a"
C13_Witness ==
    /\ pc = "packed"
    /\ pk_params.near_dup_jaccard = Some([num |-> 9, den |-> 10])
    /\ pk_params.compare_last_n = 1
    /\ pk_params.per_source_quota = 0
    /\ pk_ret.log = <<"kept", "dup", "kept">>
    /\ Tokens(ChunkText(pk_chunks[3])) # Tokens(ChunkText(pk_chunks[1]))

-----------------------------------------------------------------------------
(* The model's responses used by the specifications below *)

\* a citations entry with the given id (None: no "id" key)
Cit(id) == [id |-> id]

\* a parsed response dict
Parsed(answer, cits, cov, abstain, why) ==
    [answer_markdown |-> answer, citations |-> cits, support_coverage |-> cov,
     abstain |-> abstain, why |-> why]

\* "".join(pieces)
RECURSIVE Concat(_)
Concat(pieces) == IF pieces = <<>> THEN <<>> ELSE Head(pieces) \o Concat(Tail(pieces))

-----------------------------------------------------------------------------
(* SpecValidate: validate_citations applied to every answer and citations list *)

MaxAnsPieces == 3

\* what answers are put together from: whole tags, the two halves of a tag,
\* a word, a full stop, a question mark with a blank, and a blank
AnswerPieces ==
    {<<"[", "C", "1", "]">>, <<"[", "C", "2", "]">>, <<"[", "C">>, <<"1", "]">>,
     <<"a">>, <<".">>, <<"?", " ">>, <<" ">>}

ValidateAnswers ==
    {Absent, JNull} \cup {JStr(Concat(ps)) : ps \in SeqsUpTo(AnswerPieces, MaxAnsPieces)}

\* citations lists: empty, C1, C2, both, an entry without id and one with an
\* empty id, and C1 after an empty id
ValidateCitLists ==
    {<<>>, <<Cit(Some(<<"C", "1">>))>>, <<Cit(Some(<<"C", "2">>))>>,
     <<Cit(Some(<<"C", "2">>)), Cit(Some(<<"C", "1">>))>>,
     <<Cit(None), Cit(Some(<<>>))>>,
     <<Cit(Some(<<>>)), Cit(Some(<<"C", "1">>))>>}

InitValidate ==
    /\ pc = "call"
    /\ ExtractIdle
    /\ IndexIdle
    /\ ValidateIdle
    /\ AbstainIdle
    /\ SynthIdle
    /\ RetrievalIdle
    /\ ExpandIdle

ValidateCitationsCall ==
    /\ pc = "call"
    /\ \E a \in ValidateAnswers, cits \in ValidateCitLists, strict \in BOOLEAN :
          /\ vc_parsed' = Parsed(a, cits, None, None, None)
          /\ vc_strict' = strict
          /\ vc_ret' = validate_citations(Parsed(a, cits, None, None, None), strict)
    /\ pc' = "validated"
    /\ UNCHANGED <<fuseVars, expandVars, rerankVars, queryVars, packVars, abstainVars, synthVars,
                   extractVars, indexVars>>

NextValidate == ValidateCitationsCall

SpecValidate == InitValidate /\ [][NextValidate]_vars

-----------------------------------------------------------------------------
(* SpecAbstain: decide_abstain applied to every coverage, similarity and threshold *)

\* coverage, similarity and threshold are multiples of 1/Grid
Grid == 4

Frac(n) == [num |-> n, den |-> Grid]

\* support_coverage is whatever number the model wrote: the grid on [0, 1],
\* and -1.0 and 2.0
AbstainCoverages ==
    {None} \cup {Some(Frac(n)) : n \in (0..Grid) \cup {0 - Grid, 2 * Grid}}
AbstainSims == {None} \cup {Some(Frac(n)) : n \in (0 - 1)..(Grid + 1)}
AbstainThresholds == {Frac(n) : n \in 0..(Grid + 1)}
AbstainFlags == {None, Some(FALSE), Some(TRUE)}
AbstainWhys == {None, Some(""), Some("unsure")}

InitAbstain ==
    /\ pc = "call"
    /\ ExtractIdle
    /\ IndexIdle
    /\ ValidateIdle
    /\ AbstainIdle
    /\ SynthIdle
    /\ RetrievalIdle
    /\ ExpandIdle

DecideAbstainCall ==
    /\ pc = "call"
    /\ \E cov \in AbstainCoverages, avg \in AbstainSims, thr \in AbstainThresholds,
          flag \in AbstainFlags, why \in AbstainWhys :
          /\ da_parsed' = Parsed(Absent, <<>>, cov, flag, why)
          /\ da_avg_sim' = avg
          /\ da_threshold' = thr
          /\ da_ret' = decide_abstain(Parsed(Absent, <<>>, cov, flag, why), avg, thr)
    /\ pc' = "decided"
    /\ UNCHANGED <<fuseVars, expandVars, rerankVars, queryVars, packVars, validateVars, synthVars,
                   extractVars, indexVars>>

NextAbstain == DecideAbstainCall

SpecAbstain == InitAbstain /\ [][NextAbstain]_vars

-----------------------------------------------------------------------------
(* SpecSynth: synthesize_answer applied to retrieved chunks and what the    *)
(* model answers                                                            *)

MaxRetrieved == 2
MaxCiteN == 2

\* retrieved chunks: a blank one, "a" titled "T", and "a b" from path "p"
SynthChunks ==
    {PackChunk(Some(<<" ">>), None, None, Some(<<"p">>), None),
     PackChunk(Some(<<"a">>), None, Some(<<"T">>), None, None),
     PackChunk(Some(<<"a", " ", "b">>), None, Some(<<"t">>), Some(<<"p">>), None)}

\* max_context_chars: int = 24_000
MaxContextCharsDefault == 24000

\* abstain_threshold: float = 0.70
AbstainThresholdDefault == [num |-> 7, den |-> 10]

\* the answers the model gives: none, null, one tagged sentence, a tagged
\* and an untagged sentence, a tag no packed item carries, and no tag
SynthAnswers ==
    {Absent, JNull,
     JStr(<<"[", "C", "1", "]", ".">>),
     JStr(<<"[", "C", "1", "]", ".", " ", "a">>),
     JStr(<<" ", "[", "C", "3", "]">>),
     JStr(<<"a">>)}

\* the citations lists the model gives: empty, C1, C1 twice then C2, C3 (no
\* packed item carries it), an entry without id around C2, an empty id
\* before C1, C2 before C1
SynthCitLists ==
    {<<>>,
     <<Cit(Some(<<"C", "1">>))>>,
     <<Cit(Some(<<"C", "2">>)), Cit(Some(<<"C", "1">>))>>,
     <<Cit(Some(<<"C", "1">>)), Cit(Some(<<"C", "1">>)), Cit(Some(<<"C", "2">>))>>,
     <<Cit(Some(<<"C", "3">>))>>,
     <<Cit(None), Cit(Some(<<"C", "2">>)), Cit(None)>>,
     <<Cit(Some(<<>>)), Cit(Some(<<"C", "1">>))>>}

\* what the model says about abstaining: nothing, abstain without or with a why
SynthAbstainSays == {<<None, None>>, <<Some(TRUE), None>>, <<Some(TRUE), Some("unsure")>>}

\* what _call_local_llm does: the call or the parsing raises, or it returns
\* a parsed response
LlmOutcomes ==
    {[raises |-> TRUE, parsed |-> Parsed(Absent, <<>>, None, None, None)]}
    \cup {[raises |-> FALSE, parsed |-> Parsed(a, cits, cov, say[1], say[2])] :
             a \in SynthAnswers, cits \in SynthCitLists,
             cov \in {None, Some(ROne)}, say \in SynthAbstainSays}

SynthArgs ==
    [retrieved         : SeqsUpTo(SynthChunks, MaxRetrieved),
     avg_sim           : {RZero, ROne},
     max_context_chars : {MaxContextCharsDefault},
     cite_n            : (0 - 1)..MaxCiteN,
     abstain_threshold : {AbstainThresholdDefault},
     strict_citations  : BOOLEAN]

InitSynth ==
    /\ pc = "call"
    /\ ExtractIdle
    /\ IndexIdle
    /\ ValidateIdle
    /\ AbstainIdle
    /\ SynthIdle
    /\ RetrievalIdle
    /\ ExpandIdle

SynthesizeAnswer ==
    /\ pc = "call"
    /\ \E a \in SynthArgs, llm \in LlmOutcomes :
          /\ sy_args' = a
          /\ sy_llm' = llm
          /\ sy_ret' = synthesize_answer(a.retrieved, Some(a.avg_sim), a.max_context_chars,
                                         a.cite_n, a.abstain_threshold, a.strict_citations, llm)
    /\ pc' = "returned"
    /\ UNCHANGED <<fuseVars, expandVars, rerankVars, queryVars, packVars, validateVars, abstainVars,
                   extractVars, indexVars>>

NextSynth == SynthesizeAnswer

SpecSynth == InitSynth /\ [][NextSynth]_vars

-----------------------------------------------------------------------------
(* Properties of validate_citations *)

\* the answer body as the model wrote it
VcAnswer == AnswerOrEmpty(vc_parsed.answer_markdown)

\* the text i..j of ans is a tag: "[C", one or more digits, "]"
IsTagAt(ans, i, j) ==
    /\ 1 <= i /\ j <= Len(ans) /\ j >= i + 3
    /\ ans[i] = "[" /\ ans[i + 1] = "C" /\ ans[j] = "]"
    /\ \A k \in (i + 2)..(j - 1) : IsDigit(ans[k])

\* the tags that appear in ans, as the ids they name
TagsAppearing(ans) ==
    {<<"C">> \o SubSeq(ans, i + 2, j - 1) :
        <<i, j>> \in {p \in (DOMAIN ans) \X (DOMAIN ans) : IsTagAt(ans, p[1], p[2])}}

\* the tags of ans that no citations entry declares
Undeclared(ans, cits) ==
    {t \in TagsAppearing(ans) : ~\E n \in DOMAIN cits : cits[n].id = Some(t)}

\* index k of ans lies in a whitespace run that follows '.', '!' or '?'
InBreak(ans, k) ==
    /\ IsSpace(ans[k])
    /\ \E p \in 2..k : /\ IsTerminator(ans[p - 1])
                       /\ \A m \in p..k : IsSpace(ans[m])

\* a..b is a sentence of ans: a longest stretch between breaks that holds
\* more than whitespace
IsSentence(ans, a, b) ==
    /\ a <= b
    /\ \A k \in a..b : ~InBreak(ans, k)
    /\ a = 1 \/ InBreak(ans, a - 1)
    /\ b = Len(ans) \/ InBreak(ans, b + 1)
    /\ \E k \in a..b : ~IsSpace(ans[k])

\* the sentences of ans that hold no tag, as pairs of indices
UntaggedSentences(ans) ==
    {p \in (DOMAIN ans) \X (DOMAIN ans) :
        /\ IsSentence(ans, p[1], p[2])
        /\ ~\E i, j \in p[1]..p[2] : IsTagAt(ans, i, j)}

\* C14: validate_citations returns ok=true if and only if every tag [Cn] in
\* the answer body has an entry with id Cn in the citations list and, when
\* strict is enabled, every sentence of the answer holds at least one tag;
\* otherwise it returns ok=false with a reason naming the undeclared tags or
\* an untagged sentence.
C14_ValidateExact ==
    pc = "validated" =>
        /\ vc_ret.ok <=> (/\ Undeclared(VcAnswer, vc_parsed.citations) = {}
                          /\ vc_strict => UntaggedSentences(VcAnswer) = {})
        /\ ~vc_ret.ok =>
              \/ /\ vc_ret.reason.tags # {}
                 /\ vc_ret.reason.tags = Undeclared(VcAnswer, vc_parsed.citations)
              \/ \E p \in UntaggedSentences(VcAnswer) :
                    vc_ret.reason.sentence = Strip(SubSeq(VcAnswer, p[1], p[2]))

\* strict validation of a tagged sentence followed by an untagged one, every
\* tag declared: refused, the reason holding the untagged sentence
C14_Witness ==
    /\ pc = "validated"
    /\ vc_strict
    /\ vc_parsed.answer_markdown = JStr(<<"[", "C", "1", "]", "?", " ", "a">>)
    /\ Undeclared(VcAnswer, vc_parsed.citations) = {}
    /\ ~vc_ret.ok
    /\ vc_ret.reason.sentence = <<"a">>

-----------------------------------------------------------------------------
(* Properties of decide_abstain *)

\* the numerator, over Grid, of the coverage (0 when it is missing)
CovN == IF da_parsed.support_coverage = None THEN 0 ELSE Val(da_parsed.support_coverage).num

\* the numerator, over Grid, of the similarity clamped to [0, 1]
SimClampedN ==
    IF da_avg_sim = None THEN 0
    ELSE Max2(0, Min2(Grid, Val(da_avg_sim).num))

\* 0.5 * coverage + 0.5 * clamp(similarity) < threshold, over 2 * Grid
BlendedBelow == CovN + SimClampedN < 2 * da_threshold.num

\* 0.5 * coverage + 0.5 * clamp(similarity) = threshold
BlendedEqual == CovN + SimClampedN = 2 * da_threshold.num

FlagSet == da_parsed.abstain = Some(TRUE)

\* C15: decide_abstain abstains exactly when the blended value is strictly
\* below the threshold or the model's own abstain flag is set; a blended
\* value equal to the threshold does not abstain; a missing
\* support_coverage counts as 0.
C15_AbstainExact ==
    pc = "decided" => (da_ret.abstain <=> (BlendedBelow \/ FlagSet))

\* coverage missing, similarity above 1, and the blended value 1/2 equal to
\* the threshold: no abstention
C15_Witness ==
    /\ pc = "decided"
    /\ da_parsed.support_coverage = None
    /\ da_avg_sim # None
    /\ Val(da_avg_sim).num > Grid
    /\ BlendedEqual
    /\ da_threshold.num > 0
    /\ ~FlagSet
    /\ ~da_ret.abstain

FullSupport ==
    /\ da_parsed.support_coverage = Some(Frac(Grid))
    /\ da_avg_sim = Some(Frac(Grid))
    /\ da_threshold.num <= Grid

NoSupport ==
    /\ da_parsed.support_coverage = Some(Frac(0))
    /\ da_avg_sim = Some(Frac(0))
    /\ da_threshold.num > 0

\* C16 as claimed: with support_coverage 1.0 and avgSimilarity 1.0
\* decide_abstain never abstains for any threshold <= 1.0, and with both at
\* 0.0 it always abstains for any threshold > 0, for every parsed response.
C16_ExtremesEveryResponse ==
    pc = "decided" =>
        /\ FullSupport => ~da_ret.abstain
        /\ NoSupport => da_ret.abstain

\* C16 amended: with support_coverage 1.0 and avgSimilarity 1.0
\* decide_abstain never abstains for any threshold <= 1.0 unless the parsed
\* response sets its own abstain flag, and with both at 0.0 it always
\* abstains for any threshold > 0.
C16_ExtremesUnlessFlag ==
    pc = "decided" =>
        /\ (FullSupport /\ ~FlagSet) => ~da_ret.abstain
        /\ NoSupport => da_ret.abstain

\* full support against the threshold 1.0, the flag written out as false
C16_Witness ==
    /\ pc = "decided"
    /\ FullSupport
    /\ da_threshold.num = Grid
    /\ da_parsed.abstain = Some(FALSE)
    /\ ~da_ret.abstain

-----------------------------------------------------------------------------
(* Properties of synthesize_answer *)

\* the packed context sent to the model
SyPacked ==
    pack_context(sy_args.retrieved, SynthPackParams(sy_args.max_context_chars)).out

\* the reference id "C<n>" of the n-th packed item
RefId(n) == <<"C", ToString(n)>>

PackedRefIds == {RefId(SyPacked[n].id) : n \in DOMAIN SyPacked}

SySuccess == pc = "returned" /\ ~sy_ret.raised /\ ~sy_ret.abstain

\* C17: synthesize_answer never returns a success result whose answer holds
\* a citation tag [Cn], or whose citations list holds an id, that is not the
\* reference id of an item of the packed context sent to the model.
C17_CitationsBackedByContext ==
    SySuccess =>
        /\ TagsAppearing(sy_ret.answer_markdown) \subseteq PackedRefIds
        /\ \A n \in DOMAIN sy_ret.citations :
              /\ sy_ret.citations[n].id # None
              /\ Val(sy_ret.citations[n].id) \in PackedRefIds

\* the entries of the model's citations list that are the first with their id
FirstOccurrences(cits) ==
    {n \in DOMAIN cits : \A m \in 1..(n - 1) : cits[m].id # cits[n].id}

\* ret holds entries of cits, each the first with its id, in the order of cits
InFirstOccurrenceOrder(ret, cits) ==
    \E f \in [DOMAIN ret -> FirstOccurrences(cits)] :
        /\ \A n \in DOMAIN ret : ret[n] = cits[f[n]]
        /\ \A n, m \in DOMAIN ret : n < m => f[n] < f[m]

TrimmedWell ==
    /\ Len(sy_ret.citations) <= sy_args.cite_n
    /\ \A n, m \in DOMAIN sy_ret.citations :
          n # m => sy_ret.citations[n].id # sy_ret.citations[m].id
    /\ InFirstOccurrenceOrder(sy_ret.citations, sy_llm.parsed.citations)

\* C18 as claimed: after validation passes, the returned citations list
\* holds at most cite_n entries, with pairwise distinct ids, in the order of
\* their first occurrence in the model's list, for every cite_n and every
\* model citations list.
C18_TrimEveryCiteN ==
    SySuccess => TrimmedWell

\* C18 amended: the same, for every cite_n >= 1.
C18_TrimPositiveCiteN ==
    (SySuccess /\ sy_args.cite_n >= 1) => TrimmedWell

\* the model cites C1, C1, C2 and cite_n is 2: C1 and C2 are returned
C18_Witness ==
    /\ SySuccess
    /\ sy_args.cite_n = 2
    /\ Len(sy_llm.parsed.citations) = 3
    /\ sy_llm.parsed.citations[1] = sy_llm.parsed.citations[2]
    /\ sy_ret.citations = <<sy_llm.parsed.citations[1], sy_llm.parsed.citations[3]>>

\* C19: when pack_context yields no items, synthesize_answer returns an
\* abstention with the reason "no usable context provided" and no snippets,
\* and the model is never called for that request.
C19_NoContextAbstains ==
    (pc = "returned" /\ SyPacked = <<>>) =>
        /\ ~sy_ret.raised
        /\ sy_ret.abstain
        /\ sy_ret.why = Reason("", "no usable context provided", {}, <<>>, "")
        /\ sy_ret.snippets = <<>>
        /\ ~sy_ret.llm_called

\* two retrieved chunks, both blank, and a model that would raise if called
C19_Witness ==
    /\ pc = "returned"
    /\ Len(sy_args.retrieved) = 2
    /\ SyPacked = <<>>
    /\ sy_llm.raises
    /\ sy_ret.abstain
    /\ ~sy_ret.llm_called

\* citation validation refuses the model's response
SyViolation == ~validate_citations(sy_llm.parsed, sy_args.strict_citations).ok

\* decide_abstain abstains on the model's response
SyAbstains ==
    decide_abstain(sy_llm.parsed, Some(sy_args.avg_sim), sy_args.abstain_threshold).abstain

\* an abstention that carries a reason and up to three packed snippets
AbstentionWithSnippets ==
    /\ ~sy_ret.raised
    /\ sy_ret.abstain
    /\ sy_ret.why # NoReason
    /\ sy_ret.snippets = SubSeq(SyPacked, 1, Min2(3, Len(SyPacked)))

\* C20: synthesize_answer returns a success result if and only if the packed
\* context is non-empty, the model's output was parsed, citation validation
\* passed and decide_abstain did not abstain; a citation-integrity violation
\* or insufficient blended support always yields an abstention that carries
\* the reason and up to three packed snippets.
C20_SuccessExactly ==
    pc = "returned" =>
        /\ (~sy_ret.raised /\ ~sy_ret.abstain)
              <=> (SyPacked # <<>> /\ ~sy_llm.raises /\ ~SyViolation /\ ~SyAbstains)
        /\ (SyPacked # <<>> /\ ~sy_llm.raises
              /\ (SyViolation
                  \/ BelowThreshold(Blended(sy_llm.parsed, Some(sy_args.avg_sim)),
                                    sy_args.abstain_threshold)))
              => AbstentionWithSnippets

-----------------------------------------------------------------------------
(* SpecExtract: _extract_first_json_object applied to every model output *)

MaxTextPieces == 4

\* what model outputs are put together from: an object's opening with a key,
\* a quote followed by a closing brace, an escaped quote, a backslash, the two
\* braces, a quote, an opening and a closing code fence, the byte order
\* mark, and noise
TextPieces ==
    {<<"{", Quote, "a", Quote, ":">>,
     <<Quote, "}">>,
     <<Backslash, Quote>>,
     <<Backslash>>,
     <<"{">>,
     <<"}">>,
     <<Quote>>,
     <<Tick, Tick, Tick, "j", "s", "o", "n", Newline>>,
     <<Newline, Tick, Tick, Tick>>,
     <<Bom>>,
     <<"a", " ">>}

\* the outputs: not a string, or a text
ExtractTexts == {None} \cup {Some(Concat(ps)) : ps \in SeqsUpTo(TextPieces, MaxTextPieces)}

InitExtract ==
    /\ pc = "call"
    /\ ExtractIdle
    /\ IndexIdle
    /\ AnswerIdle
    /\ RetrievalIdle
    /\ ExpandIdle

ExtractFirstJsonObject ==
    /\ pc = "call"
    /\ \E text \in ExtractTexts :
          /\ ex_text' = text
          /\ ex_ret' = extract_first_json_object(text)
    /\ pc' = "extracted"
    /\ UNCHANGED <<fuseVars, expandVars, rerankVars, queryVars, packVars, answerVars, indexVars>>

NextExtract == ExtractFirstJsonObject

SpecExtract == InitExtract /\ [][NextExtract]_vars

-----------------------------------------------------------------------------
(* SpecIndex: ingests and queries on one index directory, step by step *)

\* ingests that run after the one that built the index
MaxIngests == 1

\* the number of chunks an ingest finds in the data directory
ChunkCounts == {1, 2}

\* the recall budgets of a query: the recall_topk override 1, and the
\* default top_k_lexical and top_k_dense of 40
RecallTopKs == {1, 40}

\* the querying processes
Queries == {"q1", "q2"}

InitIndex ==
    /\ pc = "running"
    /\ faiss \in BOOLEAN
    /\ \E n \in ChunkCounts :
          /\ files = [f \in IndexFiles(faiss) |-> FileWritten(1, n)]
          /\ ingest = [gen |-> 1, n |-> n, step |-> 0, open |-> FALSE, last_returned |-> TRUE]
    /\ readers = [q \in Queries |-> ReaderIdle]
    /\ overlapped = [q \in Queries |-> FALSE]
    /\ ExtractIdle
    /\ AnswerIdle
    /\ RetrievalIdle
    /\ ExpandIdle

otherVars == <<pc, faiss, fuseVars, expandVars, rerankVars, queryVars, packVars, answerVars,
               extractVars>>

\* ingest_path is called: parsing and chunking touch no index file
IngestStart ==
    /\ ~IngestRunning(ingest)
    /\ ingest.gen <= MaxIngests
    /\ \E n \in ChunkCounts :
          ingest' = [ingest EXCEPT !.gen = @ + 1, !.n = n, !.step = 1, !.open = FALSE]
    /\ overlapped' = [q \in Queries |-> overlapped[q] \/ ReaderActive(readers[q], faiss)]
    /\ UNCHANGED <<files, readers, otherVars>>

\* the next file is opened for writing, which empties it
IngestOpen ==
    /\ IngestRunning(ingest)
    /\ ingest.step <= Len(IngestWrites(faiss))
    /\ ~ingest.open
    /\ files' = [files EXCEPT ![IngestFile(ingest, faiss)] = FileTorn(ingest.gen, ingest.n)]
    /\ ingest' = [ingest EXCEPT !.open = TRUE]
    /\ UNCHANGED <<readers, overlapped, otherVars>>

\* the file is written and closed
IngestClose ==
    /\ IngestRunning(ingest)
    /\ ingest.open
    /\ files' = [files EXCEPT ![IngestFile(ingest, faiss)] = FileWritten(ingest.gen, ingest.n)]
    /\ ingest' = [ingest EXCEPT !.open = FALSE, !.step = @ + 1]
    /\ UNCHANGED <<readers, overlapped, otherVars>>

\* ingest_path returns after the last write
IngestReturn ==
    /\ IngestRunning(ingest)
    /\ ingest.step > Len(IngestWrites(faiss))
    /\ ingest' = [ingest EXCEPT !.step = 0, !.last_returned = TRUE]
    /\ UNCHANGED <<files, readers, overlapped, otherVars>>

\* an exception leaves ingest_path: nothing in it catches one raised by the
\* writes, the build calls (app.py 60-66) or the prints after the last
\* write (68-69); the files stay as they are at that moment
IngestAborts ==
    /\ IngestRunning(ingest)
    /\ ingest' = [ingest EXCEPT !.step = 0, !.open = FALSE, !.last_returned = FALSE]
    /\ UNCHANGED <<files, readers, overlapped, otherVars>>

\* query_text is called by process q; the processes are interchangeable, and
\* the one called q1 is the first to call
QueryStart(q) ==
    /\ readers[q].pos = 0
    /\ q = "q2" => readers["q1"].pos >= 1
    /\ readers' = [readers EXCEPT ![q] = [@ EXCEPT !.pos = 1,
                                                   !.after_abort = ~ingest.last_returned]]
    /\ overlapped' = [overlapped EXCEPT ![q] = IngestRunning(ingest)]
    /\ UNCHANGED <<files, ingest, otherVars>>

\* process q loads the next file; after the last load of the two indexers
\* it searches them, which touches no file
QueryRead(q) ==
    /\ ReaderActive(readers[q], faiss)
    /\ \E name \in {QueryReads(faiss)[readers[q].pos]} :
       \E raises \in IF files[name].whole THEN {FALSE}
                     ELSE IF MustRaiseOnTorn(name) THEN {TRUE} ELSE BOOLEAN :
       \E seen \in {Append(readers[q].seen, files[name])} :
       \E top_k_lex \in RecallTopKs, top_k_den \in RecallTopKs :
       \E search_raises \in
             IF ~raises /\ readers[q].pos = LoadsBeforeSearch(faiss)
             THEN {l \/ d : l \in LexSearchRaises(seen, top_k_lex),
                            d \in DenseSearchRaises(seen, top_k_den)}
             ELSE {FALSE} :
          readers' = [readers EXCEPT ![q] =
                         [@ EXCEPT !.seen = seen,
                                   !.pos = IF raises THEN @ ELSE @ + 1,
                                   !.failed = raises \/ search_raises]]
    /\ UNCHANGED <<files, ingest, overlapped, otherVars>>

NextIndex ==
    \/ IngestStart
    \/ IngestOpen
    \/ IngestClose
    \/ IngestReturn
    \/ IngestAborts
    \/ \E q \in Queries : QueryStart(q)
    \/ \E q \in Queries : QueryRead(q)

SpecIndex == InitIndex /\ [][NextIndex]_vars

-----------------------------------------------------------------------------
(* Properties of query_text: final-k, filters, the no_rerank flag, failures *)

\* the final-k the caller asked for: explicit final_k, else explicit
\* rerank_topk, else the configured reranker final_k, else 8
EffectiveFinalK ==
    IF q_in.final_k # None THEN q_in.final_k[1]
    ELSE IF q_in.rerank_topk # None THEN q_in.rerank_topk[1]
    ELSE IF cfg_loaded.retrieval.reranker.final_k # None
    THEN cfg_loaded.retrieval.reranker.final_k[1]
    ELSE 8

\* C22: the effective final-k is the explicit final_k, else the explicit
\* rerank_topk, else the configured final_k, else 8, and the final selection
\* never has more chunks than it, on every path.
C22_FinalKBound ==
    SelectionMade =>
        /\ q_ret.rerank_controls.final_k = EffectiveFinalK
        /\ Len(q_ret.chunks) <= EffectiveFinalK

\* path (lower-cased) contains filter f (trimmed, lower-cased) at some offset
PathContains(path, f) ==
    LET g == Strip(f)
    IN  \E off \in 0..(Len(path) - Len(g)) :
            \A j \in 1..Len(g) : LowerChar(path[off + j]) = LowerChar(g[j])

FileFilterActive == q_in.file_filters # None /\ q_in.file_filters[1] # <<>>
PageFilterActive == q_in.page_range # None

\* chunk ch satisfies every active filter of this query
PassesActiveFilters(ch) ==
    /\ FileFilterActive =>
          \E n \in DOMAIN q_in.file_filters[1] : PathContains(FilePath(ch), q_in.file_filters[1][n])
    /\ PageFilterActive =>
          /\ PageNo(ch) # None
          /\ PageNo(ch)[1] \in (q_in.page_range[1][1])..(q_in.page_range[1][2])

\* the neighbor-expanded chunks that satisfy the active filters, in
\* neighbor-expansion order
FilteredNeighbors == SelectSeq(q_ret.neighbor_ids, PassesActiveFilters)

\* the selection of the no-rerank path
FirstFinalKFiltered ==
    SubSeq(FilteredNeighbors, 1, Min2(Max2(EffectiveFinalK, 0), Len(FilteredNeighbors)))

\* C23: with the no_rerank flag set, for every configuration, the reranker
\* is neither constructed nor invoked, the reranked ids kept for the trace
\* are empty, and the final selection is the first final-k filtered candidates in
\* neighbor-expansion order.
C23_NoRerankBypasses ==
    (pc = "raised" /\ q_in.no_rerank) =>
        /\ SelectionMade
        /\ ~q_ret.rr_constructed
        /\ ~q_ret.rr_invoked
        /\ ~q_ret.reranker_enabled
        /\ q_ret.reranked_ids = <<>>
        /\ q_ret.chunks = FirstFinalKFiltered

\* the flag bypassed a reranker that the configuration enables and whose
\* library is installed, and final-k cut the filtered candidates
C23_Witness ==
    /\ pc = "raised"
    /\ q_in.no_rerank
    /\ cfg.retrieval.reranker.enabled
    /\ cfg.retrieval.reranker.top_k_to_rerank > 0
    /\ q_env.lib
    /\ q_in.page_range # None
    /\ EffectiveFinalK >= 1
    /\ Len(FilteredNeighbors) > EffectiveFinalK
    /\ q_ret.chunks # <<>>

\* path (lower-cased) contains filter f as it was given (lower-cased) at
\* some offset
PathContainsAsGiven(path, f) ==
    \E off \in 0..(Len(path) - Len(f)) :
        \A j \in 1..Len(f) : LowerChar(path[off + j]) = LowerChar(f[j])

\* chunk ch satisfies every active filter of this query, the file filters
\* taken as they were given
PassesActiveFiltersAsGiven(ch) ==
    /\ FileFilterActive =>
          \E n \in DOMAIN q_in.file_filters[1] :
              PathContainsAsGiven(FilePath(ch), q_in.file_filters[1][n])
    /\ PageFilterActive =>
          /\ PageNo(ch) # None
          /\ PageNo(ch)[1] \in (q_in.page_range[1][1])..(q_in.page_range[1][2])

\* C24 as claimed: every candidate handed to the reranker and every chunk of
\* the final selection has a file path containing one of the given file
\* filters (case-insensitive substring) when file filters are active, and a
\* page number within [lo, hi] when a page filter is active.
C24_FiltersAsGiven ==
    SelectionMade =>
        /\ \A i \in DOMAIN q_ret.candidates : PassesActiveFiltersAsGiven(q_ret.candidates[i])
        /\ \A i \in DOMAIN q_ret.chunks : PassesActiveFiltersAsGiven(q_ret.chunks[i])

\* C24 amended: the filters act after neighbor expansion and before
\* reranking: every candidate handed to the reranker and every chunk of the
\* final selection comes from the neighbor-expanded list, has a file path
\* containing one of the file filters, each taken without its leading and
\* trailing whitespace (case-insensitive substring), when file filters are
\* active, and has a page number within [lo, hi] when a page filter is
\* active; a chunk without a page number never appears then.
C24_FiltersBeforeRerank ==
    SelectionMade =>
        /\ \A i \in DOMAIN q_ret.candidates :
              /\ PassesActiveFilters(q_ret.candidates[i])
              /\ \E n \in DOMAIN q_ret.neighbor_ids : q_ret.neighbor_ids[n] = q_ret.candidates[i]
        /\ \A i \in DOMAIN q_ret.chunks :
              /\ PassesActiveFilters(q_ret.chunks[i])
              /\ \E n \in DOMAIN q_ret.neighbor_ids : q_ret.neighbor_ids[n] = q_ret.chunks[i]
        /\ q_ret.rr_invoked =>
              q_ret.candidates = SubSeq(FilteredNeighbors, 1,
                                        Min2(Max2(q_ret.rerank_controls.top_k_to_rerank, 0),
                                             Len(FilteredNeighbors)))

\* both filters were active, they turned away a chunk of another file, the
\* chunk without a page number and a chunk whose page is outside the range,
\* the reranker scored what was left, and a selected chunk's path contains
\* the filter only without its surrounding whitespace
C24_Witness ==
    /\ SelectionMade
    /\ FileFilterActive
    /\ PageFilterActive
    /\ \E n \in DOMAIN q_ret.neighbor_ids :
          /\ PageNo(q_ret.neighbor_ids[n]) # None
          /\ PageNo(q_ret.neighbor_ids[n])[1] \notin
                (q_in.page_range[1][1])..(q_in.page_range[1][2])
    /\ \E i \in DOMAIN q_ret.chunks :
          ~PathContainsAsGiven(FilePath(q_ret.chunks[i]), q_in.file_filters[1][1])
    /\ \E n \in DOMAIN q_ret.neighbor_ids : PageNo(q_ret.neighbor_ids[n]) = None
    /\ \E n \in DOMAIN q_ret.neighbor_ids :
          ~PathContains(FilePath(q_ret.neighbor_ids[n]), q_in.file_filters[1][1])
    /\ q_ret.rr_invoked
    /\ q_ret.scores_obj.kind # "none"
    /\ q_ret.candidates # <<>>
    /\ q_ret.chunks # <<>>

\* the cross-encoder's predict call failed inside rerank
ScoringFailed ==
    /\ SelectionMade
    /\ q_ret.rr_invoked
    /\ q_ret.candidates # <<>>
    /\ q_env.rr_env = "predict_raises"

\* C27: when the scoring call fails, the final selection is the one of the
\* no-rerank path, the first final-k filtered candidates in
\* neighbor-expansion order, for every final-k and top_k_to_rerank.
C27_ScoringFailureKeepsSelection ==
    ScoringFailed =>
        /\ q_ret.scores_obj.kind = "none"
        /\ q_ret.chunks = FirstFinalKFiltered

\* the reranker model could not be loaded when rerank first needed it
ModelLoadFailed ==
    /\ pc = "raised"
    /\ q_env.lib
    /\ q_ret.rr_invoked
    /\ q_ret.candidates # <<>>
    /\ q_env.rr_env = "load_raises"

\* C28: when the cross-encoder library is importable but the model cannot be
\* loaded, the reranker is a no-op and the query goes on with the
\* pre-rerank order instead of failing in the rerank call.
C28_LoadFailureDegrades ==
    ModelLoadFailed =>
        /\ q_ret.error # RerankLoadError
        /\ q_ret.scores_obj.kind = "none"
        /\ q_ret.chunks = FirstFinalKFiltered

-----------------------------------------------------------------------------
(* Properties of a run of queries *)

\* the parameters a call without overrides resolves from configuration c
ConfiguredParameters(c) ==
    [recall_topk_effective     |-> [lexical |-> c.retrieval.top_k_lexical,
                                    dense |-> c.retrieval.top_k_dense],
     neighbor_radius_effective |-> c.retrieval.neighborhood,
     reranker_enabled          |-> c.retrieval.reranker.enabled,
     rerank_controls           |->
        [top_k_to_rerank |-> c.retrieval.reranker.top_k_to_rerank,
         final_k         |-> IF c.retrieval.reranker.final_k # None
                             THEN c.retrieval.reranker.final_k[1] ELSE 8,
         min_score       |-> c.retrieval.reranker.min_score]]

\* the effective parameters the last call resolved (app.py 112-142)
ReportedParameters ==
    [recall_topk_effective     |-> q_ret.recall_topk_effective,
     neighbor_radius_effective |-> q_ret.neighbor_radius_effective,
     reranker_enabled          |-> q_ret.reranker_enabled,
     rerank_controls           |-> q_ret.rerank_controls]

\* C25: query_text never modifies the caller's configuration: after any
\* sequence of queries with arbitrary overrides the configuration is what
\* was loaded, and a later query without overrides resolves the parameters
\* of the loaded configuration.
C25_OverridesNeverLeak ==
    /\ cfg = cfg_loaded
    /\ (pc = "raised" /\ ~HasOverride(q_in)) =>
          ReportedParameters = ConfiguredParameters(cfg_loaded)

\* a query without overrides ran after a query that carried overrides
C25_Witness ==
    /\ pc = "raised"
    /\ q_earlier
    /\ ~HasOverride(q_in)
    /\ cfg_loaded.retrieval.reranker.enabled
    /\ cfg_loaded.retrieval.reranker.final_k = None
    /\ q_env.lib
    /\ q_ret.chunks # <<>>

-----------------------------------------------------------------------------
(* Properties of what synthesize_answer returns to the caller *)

\* the ids of the returned citations list
ReturnedIds ==
    {sy_ret.citations[n].id[1] : n \in {m \in DOMAIN sy_ret.citations : sy_ret.citations[m].id # None}}

\* C29: in every success result, every tag [Cn] of answer_markdown has an
\* entry with id Cn in the returned citations list, also after the list was
\* trimmed to cite_n entries.
C29_ReturnedTagsDeclared ==
    SySuccess => TagsAppearing(sy_ret.answer_markdown) \subseteq ReturnedIds

-----------------------------------------------------------------------------
(* Properties of the blended confidence *)

\* the similarity handed to decide_abstain is missing, zero or negative
NoSimilarity == da_avg_sim = None \/ da_avg_sim[1].num <= 0

\* C30: the blended confidence lies in [0, 1], and for every reported
\* support_coverage, an avgSimilarity <= 0 with a threshold above 0.5 makes
\* decide_abstain abstain.
C30_CoverageAloneNeverPasses ==
    pc = "decided" =>
        /\ 0 <= CovN + SimClampedN
        /\ CovN + SimClampedN <= 2 * Grid
        /\ (NoSimilarity /\ 2 * da_threshold.num > Grid) => da_ret.abstain

-----------------------------------------------------------------------------
(* Properties of _extract_first_json_object *)

\* the number of backslashes that stand directly before index j, counted
\* back no further than index lo
RECURSIVE BackslashRun(_, _, _)
BackslashRun(c, j, lo) ==
    IF j - 1 >= lo /\ c[j - 1] = Backslash THEN 1 + BackslashRun(c, j - 1, lo) ELSE 0

\* the quote that ends the string literal opened by the quote at index i: the
\* first later quote with an even number of backslashes directly before it
\* (a backslash-escaped quote does not end the string); 0 if there is none
StringClose(c, i) ==
    LET Ends(j) == c[j] = Quote /\ BackslashRun(c, j, i + 1) % 2 = 0
    IN  IF \E j \in (i + 1)..Len(c) : Ends(j)
        THEN CHOOSE j \in (i + 1)..Len(c) : Ends(j) /\ \A k \in (i + 1)..(j - 1) : ~Ends(k)
        ELSE 0

\* the index of the first '}' outside a string literal that brings the brace
\* depth back to zero, reading from index i with the given depth and
\* stepping over whole string literals; 0 if there is none
RECURSIVE BalancedClose(_, _, _)
BalancedClose(c, i, depth) ==
    IF i > Len(c) THEN 0
    ELSE IF c[i] = Quote
    THEN IF StringClose(c, i) = 0 THEN 0 ELSE BalancedClose(c, StringClose(c, i) + 1, depth)
    ELSE IF c[i] = "{" THEN BalancedClose(c, i + 1, depth + 1)
    ELSE IF c[i] = "}" /\ depth = 1 THEN i
    ELSE IF c[i] = "}" THEN BalancedClose(c, i + 1, depth - 1)
    ELSE BalancedClose(c, i + 1, depth)

\* the text of this call without byte order mark and code fences
ExCleaned == Cleaned(ex_text[1])
ExStart == Find(ExCleaned, "{")
ExClose == BalancedClose(ExCleaned, ExStart, 0)

\* the text of this call behind a byte order mark, noise and an opening
\* fence, and in front of a closing fence and noise
ExWrapped ==
    <<Bom, "a", " ", Newline, Tick, Tick, Tick, "j", "s", "o", "n", Newline>>
        \o ex_text[1] \o <<Newline, Tick, Tick, Tick, Newline, "a">>

\* C21: _extract_first_json_object returns the parse of the text from the
\* first '{' to the first '}' that brings the depth back to zero outside a
\* string literal (braces inside string literals and backslash-escaped
\* quotes change neither the depth nor the string state); a byte order
\* mark, code fences and noise around the object change nothing; ValueError
\* is raised when there is no '{' or the depth never returns to zero.
C21_FirstBalancedObject ==
    (pc = "extracted" /\ ex_text # None) =>
        /\ IF ExStart = 0
           THEN ex_ret.raised /\ ex_ret.error = "No '{' found in model output."
           ELSE IF ExClose = 0
           THEN ex_ret.raised /\ ex_ret.error = "Unbalanced JSON braces in model output."
           ELSE ex_ret = json_loads(SubSeq(ExCleaned, ExStart, ExClose))
        /\ (ex_text[1] # <<>> /\ ex_text[1][1] = "{") =>
              extract_first_json_object(Some(ExWrapped)) = ex_ret

\* an object was returned whose string value holds a closing brace and an
\* escaped quote
C21_Witness ==
    /\ pc = "extracted"
    /\ ex_text # None
    /\ ~ex_ret.raised
    /\ ex_ret.value = JObject(<<JMember(<<"a">>, JString(<<"}", Quote>>))>>)
    /\ ExClose = Len(ExCleaned)

-----------------------------------------------------------------------------
(* Properties of ingests and queries on one index directory *)

\* process q has loaded every file it reads
LoadedAll(q) == ~readers[q].failed /\ readers[q].pos > Len(QueryReads(faiss))

\* what process q found in the file called name
SeenFile(q, name) ==
    readers[q].seen[CHOOSE i \in DOMAIN QueryReads(faiss) : QueryReads(faiss)[i] = name]

\* everything process q loaded was completely written by one and the same ingest
SingleIngest(q) ==
    /\ LoadedAll(q)
    /\ \A i \in DOMAIN readers[q].seen :
          /\ readers[q].seen[i].whole
          /\ readers[q].seen[i].gen = readers[q].seen[1].gen

\* the chunk metadata a query loaded is never older than an index it loaded:
\* ingest writes chunks.jsonl first and the query reads it last
MetadataNewest(q) ==
    LoadedAll(q) =>
        \A i \in DOMAIN readers[q].seen :
            readers[q].seen[i].gen <= SeenFile(q, "chunks.jsonl").gen

\* a step of one querying process changes neither the files, nor the
\* ingest, nor what another process has loaded
QueriesIndependent ==
    \A q \in Queries :
        readers'[q] # readers[q] =>
            /\ files' = files
            /\ ingest' = ingest
            /\ \A r \in Queries \ {q} : readers'[r] = readers[r]

\* C26 as claimed: a query that overlaps no ingest always loads the
\* artifacts of a single ingest, and concurrent queries do not affect each
\* other.
C26_ConsistentWithoutOverlap ==
    /\ [](pc = "running" =>
            \A q \in Queries :
                (ReaderFinished(readers[q], faiss) /\ ~overlapped[q]) => SingleIngest(q))
    /\ [][pc = "running" => QueriesIndependent]_vars

\* What does hold: a query that overlaps no ingest and starts when the last
\* ingest has returned (was not left by an exception) loads the artifacts of
\* a single ingest; the chunk metadata a query loads is never older than an
\* index it loads; concurrent queries do not affect each other.
ConsistentAfterReturnedIngest ==
    /\ [](pc = "running" =>
            \A q \in Queries :
                /\ (ReaderFinished(readers[q], faiss) /\ ~overlapped[q]
                      /\ ~readers[q].after_abort) => SingleIngest(q)
                /\ MetadataNewest(q))
    /\ [][pc = "running" => QueriesIndependent]_vars

\* a query that overlapped an ingest loaded the new lexical chunk order with
\* the old dense chunk order, every file completely written, while the
\* other query loaded the artifacts of a single ingest
MixedUnderOverlap ==
    /\ pc = "running"
    /\ LoadedAll("q1")
    /\ overlapped["q1"]
    /\ \A i \in DOMAIN readers["q1"].seen : readers["q1"].seen[i].whole
    /\ SeenFile("q1", "chunk_ids_lex.json").gen > SeenFile("q1", "chunk_ids.json").gen
    /\ SingleIngest("q2")
    /\ ~overlapped["q2"]

=============================================================================
